---- MODULE Spec2Model ----
(***************************************************************************)
(* Batch orchestration scripts of shulab_code: the recon-all batch         *)
(* (CortexThickness/recon.py, recon_ses.py), the atlas batches             *)
(* (run_bn_atlas_batch.py, run_atlas_batch.py) and their thread pools.     *)
(*                                                                         *)
(* The filesystem is a function from the existing paths (sequences of     *)
(* path components below the data root) to nodes.  External binaries are  *)
(* environment: their exit status and what they leave on disk are chosen  *)
(* nondeterministically among the outcomes named in ToolOutcomes.         *)
(***************************************************************************)
EXTENDS Integers, Sequences, FiniteSets, TLC

\* ------------------------------------------------------------------ bounds
NumUnits == 3        \* unit directories below the data root
MaxThreads == 2      \* largest max_threads tried
MaxRuns == 2         \* consecutive invocations of main
MaxCalls == 3        \* calls of check_completion tried on one disk
NumSubjects == 2     \* subject directories of the atlas batch

\* MAX_THREADS of the atlas batch scripts
MAX_THREADS == 4

Units == 1..NumUnits
Subjects == 1..NumSubjects

VARIABLES
    fsys,             \* the filesystem: [existing paths -> node]
    script,           \* which script runs: "recon" or "recon_ses"
    max_threads,      \* main's max_threads argument
    mainpc,           \* "idle" (outside main) or "pool" (inside the with block)
    run,              \* number of the current / last invocation of main
    incomplete_items, \* the list main built (recon.py:56)
    queue,            \* work items submitted and not yet taken by a thread
    pc,               \* unit -> position of its future
    result,           \* unit -> what process_subject returned or raised
    report,           \* unit -> outcome shown on the console in this run
    donemsg,          \* the final "Done" banner of this run was printed
    \* history, for stating properties only
    pre,              \* the filesystem as main found it when it scanned
    written,          \* paths created or overwritten since main scanned
    removed,          \* units whose fs directory was rmtree'd in this run
    invoked,          \* units for which subprocess.run was called in this run
    exitcode,         \* unit -> how its recon-all invocation ended in this run
    prevreport,       \* unit -> its outcome in the previous run
    \* direct calls of check_completion
    checked,          \* unit -> what the last call returned
    calls,            \* number of calls made
    \* the atlas batch scripts
    atlas,            \* which atlas script runs
    amainpc,          \* "start", "pool" (inside the with block) or "end"
    aqueue,           \* subjects handed to executor.map and not yet taken
    apc,              \* subject -> position of its process_subject call
    step,             \* subject -> index in cmds of the last command started
    trace,            \* subject -> the starts and exits of its commands, in order
    areport,          \* subject -> what process_subject printed at its end
    aresult,          \* subject -> how its process_subject call ended
    \* TBSS/1_famd_erode_register.py
    tmainpc,          \* "start", "pool", "raising", "crashed" or "done"
    tqueue,           \* subject directories submitted and not yet taken
    tpc,              \* subject -> position of its run_preproc_reg call
    tstep,            \* subject -> number of the last external command started
    tresult,          \* subject -> how its run_preproc_reg call ended
    tmsg,             \* the closing message of main was printed
    \* enumeration of DATA_DIR by the atlas and the stats scripts
    listing,          \* name -> what DATA_DIR holds under it
    visited,          \* the enumerations that have run
    selected,         \* enumeration -> the names it kept
    \* write_log called from several pool threads
    logscript,        \* whose write_log calls are followed: "atlas" or "stats"
    logfile,          \* the content of LOG_PATH, a sequence of tokens
    lpc,              \* thread -> "closed" or "open" (inside the with block)
    lpos,             \* thread -> the file position its open left it at
    lcount,           \* thread -> number of write_log calls it has ended
    lwritten,         \* the calls whose write has happened, in that order
    \* TBSS/2_dtifit.py
    dmainpc,          \* "start", "pool" (inside the with block) or "end"
    dqueue,           \* subject directories handed to executor.map and not yet taken
    dpc,              \* subject -> position of its run_dtifit call
    dtidir,           \* subject -> dwi/dtifit is "present", "absent", or dwi is missing too
    dmade,            \* subject -> what run_dtifit found or did about dwi/dtifit
    dinvoked,         \* subjects for which a dtifit process was started
    \* extract_global_metrics of run_stats_batch.py
    statfiles,        \* stats file name -> "present" or "absent"
    captures,         \* metric -> what its pattern finds in its stats file
    mpc,              \* "before" the call, "returned" or "raised"
    metrics,          \* metric -> its value in the returned dict
    warned,           \* the [WARN] lines printed, as <<metric, file or reason>>
    \* main of run_stats_batch.py
    spc,              \* where main of run_stats_batch.py stands
    subj_count,       \* what generate_subject_path_file returned
    squeue,           \* indices of the tasks waiting in the pool, in map order
    srunning,         \* indices of the tasks a pool thread is running
    launched,         \* task index -> number of aparcstats2table processes run for it
    pools,            \* number of ThreadPoolExecutors created
    asegi,            \* number of SUBCORTICAL_STATS entries the loop went through
    aseglaunched,     \* number of asegstats2table processes run
    stages,           \* the stages of main begun so far, in order
    slog,             \* process_stats.log as the sequence of its entries
    \* merge_parc_to_excel of run_stats_batch.py
    mparc,            \* the parcellation merge_parc_to_excel was called with
    parc_dir,         \* whether the parcellation directory exists
    csvs,             \* CSV file of the directory -> "absent" or what happens when it is merged
    xpc,              \* where merge_parc_to_excel stands
    todo,             \* the CSV files os.listdir has still to yield
    sheets,           \* CSV file -> "none", or its sheet in wb: "full" or "partial"
    default_sheet,    \* whether wb holds the sheet named Sheet
    wb_saved,         \* whether wb.save wrote the workbook
    \* the environment of the atlas scripts' commands
    escript,          \* the atlas script whose process_subject calls run
    os_environ,       \* os.environ of the Python process
    epc,              \* subject -> "idle", "running" or "ended" for its process_subject call
    env,              \* subject -> the local env of its call
    ecmd,             \* subject -> number of commands its call has run
    seen,             \* subject -> the SUBJECTS_DIR values its commands were started with
    \* TBSS/1_famd_erode_register.py with the files it touches
    gmainpc,          \* "start", "pool" (inside the with block), "done" or "crashed"
    has_dtifit,       \* subject -> its dwi/dtifit is a directory
    gfiles,           \* subject -> the input, result and intermediate files it has
    gbefore,          \* subject -> the files it had when the script started
    gqueue,           \* the valid directories submitted and not yet taken
    gpc,              \* subject -> position of its run_preproc_reg call
    gcmds,            \* subject -> number of external commands launched for it
    gresult           \* subject -> "none", "None" or the exception of its call

reconVars == <<fsys, script, max_threads, mainpc, run, incomplete_items, queue,
               pc, result, report, donemsg, pre, written, removed, invoked,
               exitcode, prevreport>>
checkVars == <<checked, calls>>
atlasVars == <<atlas, amainpc, aqueue, apc, step, trace, areport, aresult>>
tbssVars == <<tmainpc, tqueue, tpc, tstep, tresult, tmsg>>
enumVars == <<listing, visited, selected>>
\* the scripts modelled further down
logVars == <<logscript, logfile, lpc, lpos, lcount, lwritten>>
dtiVars == <<dmainpc, dqueue, dpc, dtidir, dmade, dinvoked>>
metricsVars == <<statfiles, captures, mpc, metrics, warned>>
statsVars == <<spc, subj_count, squeue, srunning, launched, pools, asegi, aseglaunched, stages, slog>>
mergeVars == <<mparc, parc_dir, csvs, xpc, todo, sheets, default_sheet, wb_saved>>
envVars == <<escript, os_environ, epc, env, ecmd, seen>>
regVars == <<gmainpc, has_dtifit, gfiles, gbefore, gqueue, gpc, gcmds, gresult>>
restVars == <<logVars, dtiVars, metricsVars, statsVars, mergeVars, envVars, regVars>>
vars == <<reconVars, checkVars, atlasVars, tbssVars, enumVars, restVars>>

\* what an action of one script leaves alone: the state of the other scripts
nonRecon == <<checkVars, atlasVars, tbssVars, enumVars, restVars>>
nonAtlas == <<reconVars, checkVars, tbssVars, enumVars, restVars>>
nonTbss == <<reconVars, checkVars, atlasVars, enumVars, restVars>>
nonEnum == <<reconVars, checkVars, atlasVars, tbssVars, restVars>>

\* what the further scripts leave alone
coreVars == <<reconVars, checkVars, atlasVars, tbssVars, enumVars>>
nonLog == <<coreVars, dtiVars, metricsVars, statsVars, mergeVars, envVars, regVars>>
nonDti == <<coreVars, logVars, metricsVars, statsVars, mergeVars, envVars, regVars>>
nonMetrics == <<coreVars, logVars, dtiVars, statsVars, mergeVars, envVars, regVars>>
nonStats == <<coreVars, logVars, dtiVars, metricsVars, mergeVars, envVars, regVars>>
nonMerge == <<coreVars, logVars, dtiVars, metricsVars, statsVars, envVars, regVars>>
nonEnv == <<coreVars, logVars, dtiVars, metricsVars, statsVars, mergeVars, regVars>>
nonReg == <<coreVars, logVars, dtiVars, metricsVars, statsVars, mergeVars, envVars>>

\* ------------------------------------------------------------- strings
\* str.__contains__: needle occurs as a contiguous substring of hay
ContainsFirstChar(hay, needle) ==
    \E i \in 1..Len(hay) : hay[i] = needle[1]
ContainsAtStart(hay, needle) ==
    Len(needle) <= Len(hay) /\ SubSeq(hay, 1, Len(needle)) = needle
Contains(hay, needle) ==
    \E i \in 1..(Len(hay) - Len(needle) + 1) :
        SubSeq(hay, i, i + Len(needle) - 1) = needle

\* "finished without error"
Marker == <<"f","i","n","i","s","h","e","d"," ","w","i","t","h","o","u","t",
            " ","e","r","r","o","r">>

\* log text recon-all leaves on success / on failure
LogOk == <<"f","s"," ">> \o Marker \o <<" ","a","t","\n">>
LogErr == <<"f","s"," ","e","x","i","t","e","d"," ","w","i","t","h"," ",
            "E","R","R","O","R","S","\n">>

\* texts that only resemble the marker, or hold it in other places
MarkerCut == SubSeq(Marker, 1, Len(Marker) - 1)
MarkerCaps == <<"F">> \o Tail(Marker)
MarkerGap == SubSeq(Marker, 1, 9) \o <<" ">> \o SubSeq(Marker, 10, Len(Marker))
MarkerSplit == SubSeq(Marker, 1, 16) \o <<"\n">> \o SubSeq(Marker, 18, Len(Marker))
MarkerTwice == SubSeq(Marker, 1, 17) \o Marker
MarkerInWord == <<"u", "n">> \o Marker \o <<"s">>

\* the file contents that occur, by name; a file node holds the name
Texts ==
    [empty |-> <<>>, marker |-> Marker, ok |-> LogOk, err |-> LogErr,
     err_ok |-> LogErr \o LogOk, cut |-> MarkerCut, caps |-> MarkerCaps,
     gap |-> MarkerGap, split |-> MarkerSplit, twice |-> MarkerTwice,
     inword |-> MarkerInWord]

\* ---------------------------------------------------------- filesystem
Dir == [kind |-> "dir", text |-> "empty"]
File(t) == [kind |-> "file", text |-> t]

IsPrefix(p, q) == Len(p) <= Len(q) /\ SubSeq(q, 1, Len(p)) = p

\* file.read()
Read(fs, p) == Texts[fs[p].text]

\* Path.exists / os.path.exists
Exists(fs, p) == p \in DOMAIN fs

\* paths at or below p
Under(fs, p) == {q \in DOMAIN fs : IsPrefix(p, q)}

\* create or overwrite the nodes of w (a function path -> node)
WriteAll(fs, w) ==
    [q \in DOMAIN fs \cup DOMAIN w |-> IF q \in DOMAIN w THEN w[q] ELSE fs[q]]

\* shutil.rmtree(p): p and everything below it is gone
RmTreeKeep(fs, p) == fs
RmTreeUnit(fs, p) == [q \in DOMAIN fs \ Under(fs, SubSeq(p, 1, 1)) |-> fs[q]]
rmtree(fs, p) == [q \in DOMAIN fs \ Under(fs, p) |-> fs[q]]

\* path_item / 'fs' and the files below it
UnitPath(u) == <<u>>
fs_path(u) == <<u, "fs">>
scripts_path(u) == <<u, "fs", "scripts">>
done_file(u) == <<u, "fs", "scripts", "recon-all.done">>
log_file(u) == <<u, "fs", "scripts", "recon-all.log">>
error_file(u) == <<u, "fs", "scripts", "recon-all.error">>
orig_file(u) == <<u, "fs", "orig.mgz">>

\* -------------------------------------------------- check_completion
check_completion_any_log(fs, u) ==
    Exists(fs, done_file(u)) \/ Exists(fs, log_file(u))
check_completion(fs, u) ==
    IF Exists(fs, done_file(u)) THEN TRUE
    ELSE IF Exists(fs, log_file(u))
         THEN Contains(Read(fs, log_file(u)), Marker)
         ELSE FALSE

\* open(log_file, 'r') and log.read() leave the file as it is
open_w(fs, p) == [fs EXCEPT ![p] = File("empty")]
open_r(fs, p) == fs

\* the filesystem after a call of check_completion
check_completion_fs(fs, u) ==
    IF Exists(fs, done_file(u)) THEN fs
    ELSE IF Exists(fs, log_file(u)) THEN open_r(fs, log_file(u))
         ELSE fs

\* ------------------------------------------------ recon-all (external)
\* exit 0: the log ends with the success line and the done file is written;
\* exit nonzero: the log holds no success line and the error file is written
ToolOutcomes == {"ok", "fail"}

ReconAllWrites(u, o) ==
    LET base == (fs_path(u) :> Dir) @@ (scripts_path(u) :> Dir)
                @@ (orig_file(u) :> File("empty"))
    IN  CASE o = "ok"   -> base @@ (log_file(u) :> File("ok"))
                                @@ (done_file(u) :> File("empty"))
          [] o = "fail" -> base @@ (log_file(u) :> File("err"))
                                @@ (error_file(u) :> File("empty"))

ReconAllShared(fs, u, o) == WriteAll(fs, ReconAllWrites(1, o))
ReconAll(fs, u, o) == WriteAll(fs, ReconAllWrites(u, o))

\* ------------------------------------------------------ initial disks
\* a unit never processed, one recon-all completed, one it failed on
Layouts == {"fresh", "done", "stale"}

LayoutNodes(u, l) ==
    LET unit == (UnitPath(u) :> Dir)
    IN  CASE l = "fresh" -> unit
          [] l = "done"  -> unit @@ ReconAllWrites(u, "ok")
          [] l = "stale" -> unit @@ ReconAllWrites(u, "fail")

RECURSIVE Disk(_, _)
Disk(lay, n) ==
    IF n = 0 THEN << >> :> Dir
    ELSE Disk(lay, n - 1) @@ LayoutNodes(n, lay[n])

NoReport == [u \in Units |-> "none"]

\* nothing of the recon batch has run yet
ReconIdle ==
    /\ mainpc = "idle"
    /\ run = 0
    /\ incomplete_items = <<>>
    /\ queue = <<>>
    /\ pc = [u \in Units |-> "none"]
    /\ result = [u \in Units |-> "none"]
    /\ report = NoReport
    /\ donemsg = FALSE
    /\ pre = fsys
    /\ written = {}
    /\ removed = {}
    /\ invoked = {}
    /\ exitcode = NoReport
    /\ prevreport = NoReport

CheckIdle ==
    /\ checked = NoReport
    /\ calls = 0

AtlasIdle ==
    /\ amainpc = "start"
    /\ aqueue = <<>>
    /\ apc = [s \in Subjects |-> "none"]
    /\ step = [s \in Subjects |-> 0]
    /\ trace = [s \in Subjects |-> <<>>]
    /\ areport = [s \in Subjects |-> "none"]
    /\ aresult = [s \in Subjects |-> "none"]

\* names DATA_DIR may hold, and the places where a script lists DATA_DIR:
\* the three atlas batches, the subject path file and Global.csv of the
\* stats batch
Names == {"fsaverage", "sub-01", "sub-02"}
Enumerations == {"BNA246", "BNA246_HCPMMP1", "BNA246_HCPMMP1_Schaefer200",
                 "subj_path.txt", "Global.csv"}

EnumIdle ==
    /\ listing = [n \in Names |-> "absent"]
    /\ visited = {}
    /\ selected = [e \in Enumerations |-> {}]

TbssIdle ==
    /\ tmainpc = "start"
    /\ tqueue = <<>>
    /\ tpc = [s \in Subjects |-> "none"]
    /\ tstep = [s \in Subjects |-> 0]
    /\ tresult = [s \in Subjects |-> "none"]
    /\ tmsg = FALSE

\* ------------------------------- stats files and metrics (run_stats_batch)
StatsFiles == {"aseg.stats", "lh.aparc.stats", "rh.aparc.stats"}

\* metrics_rules["aseg"], and metrics_rules["aparc"] for lh and, with lh
\* replaced by rh in the metric name, for rh (lines 271-284, 316)
AsegMetrics == {"GMV", "sGMV", "WMV", "Ventricles", "TCV"}
LhMetrics == {"lhVertex", "lh_totaISA2", "lhMeanThickness"}
RhMetrics == {"rhVertex", "rh_totaISA2", "rhMeanThickness"}
Sourced == AsegMetrics \cup LhMetrics \cup RhMetrics
Derived == {"meanCT2", "totalSA2"}

SourceFile(m) ==
    IF m \in AsegMetrics THEN "aseg.stats"
    ELSE IF m \in LhMetrics THEN "lh.aparc.stats" ELSE "rh.aparc.stats"

\* what re.search finds for a pattern: no match, or the text of group 1,
\* which is digits and the like or some other run of non-blanks
NoMatch == [t |-> "none", v |-> 0]
Text == [t |-> "text", v |-> 0]
Digits(n) == [t |-> "num", v |-> n]

\* values of the metrics dict: key not set, float('nan'), a number, or the
\* quotient v / d
Unset == [t |-> "unset", v |-> 0, d |-> 1]
NaN == [t |-> "nan", v |-> 0, d |-> 1]
Num(n) == [t |-> "num", v |-> n, d |-> 1]
Quotient(n, k) == [t |-> "num", v |-> n, d |-> k]

\* ------------------------------- the task list of run_stats_batch.py
HEMISPHERES == <<"lh", "rh">>
MEASUREMENTS == <<"area", "volume", "thickness", "meancurv", "gauscurv", "foldind", "curvind">>
PARCELLATIONS == <<"aparc", "BN_Atlas", "Schaefer200", "hcp-mmp-b">>
SUBCORTICAL_STATS == <<"aseg", "BN_Atlas_subcotex">>

\* total = len(HEMISPHERES) * len(MEASUREMENTS) * len(PARCELLATIONS)
total == Len(HEMISPHERES) * Len(MEASUREMENTS) * Len(PARCELLATIONS)

\* ------------------------------- the CSV files of a parcellation directory
MaxCsv == 2

\* Global.csv, and the other files of the directory that end in .csv
Global == 0
CsvFiles == 0..MaxCsv

\* ------------------------------- environments of processes
\* an environment with SUBJECTS_DIR at d (<< >>: not set) beside the other
\* variables the process was started with
Inherited(d) == [SUBJECTS_DIR |-> d, FREESURFER_HOME |-> <<"freesurfer">>]

\* the further scripts at rest
LogIdle ==
    /\ logscript = "atlas"
    /\ logfile = <<>>
    /\ lpc = [w \in Subjects |-> "closed"]
    /\ lpos = [w \in Subjects |-> 0]
    /\ lcount = [w \in Subjects |-> 0]
    /\ lwritten = <<>>

DtiIdle ==
    /\ dmainpc = "start"
    /\ dqueue = <<>>
    /\ dpc = [s \in Subjects |-> "none"]
    /\ dtidir = [s \in Subjects |-> "absent"]
    /\ dmade = [s \in Subjects |-> "none"]
    /\ dinvoked = {}

MetricsIdle ==
    /\ statfiles = [f \in StatsFiles |-> "absent"]
    /\ captures = [m \in Sourced |-> NoMatch]
    /\ mpc = "before"
    /\ metrics = [m \in Sourced \cup Derived |-> Unset]
    /\ warned = {}

StatsIdle ==
    /\ spc = "begin"
    /\ subj_count = 0
    /\ squeue = << >>
    /\ srunning = {}
    /\ launched = [i \in 1..total |-> 0]
    /\ pools = 0
    /\ asegi = 0
    /\ aseglaunched = 0
    /\ stages = << >>
    /\ slog = << >>

MergeIdle ==
    /\ mparc = "aparc"
    /\ parc_dir = FALSE
    /\ csvs = [f \in CsvFiles |-> "absent"]
    /\ xpc = "begin"
    /\ todo = {}
    /\ sheets = [f \in CsvFiles |-> "none"]
    /\ default_sheet = FALSE
    /\ wb_saved = FALSE

EnvIdle ==
    /\ escript = "BNA246"
    /\ os_environ = Inherited(<< >>)
    /\ epc = [s \in Subjects |-> "idle"]
    /\ env = [s \in Subjects |-> Inherited(<< >>)]
    /\ ecmd = [s \in Subjects |-> 0]
    /\ seen = [s \in Subjects |-> {}]

RegIdle ==
    /\ gmainpc = "start"
    /\ has_dtifit = [s \in Subjects |-> FALSE]
    /\ gfiles = [s \in Subjects |-> {}]
    /\ gbefore = [s \in Subjects |-> {}]
    /\ gqueue = <<>>
    /\ gpc = [s \in Subjects |-> "none"]
    /\ gcmds = [s \in Subjects |-> 0]
    /\ gresult = [s \in Subjects |-> "none"]

RestIdle ==
    /\ LogIdle
    /\ DtiIdle
    /\ MetricsIdle
    /\ StatsIdle
    /\ MergeIdle
    /\ EnvIdle
    /\ RegIdle

\* nothing of the scripts above has run, on an empty data root
Quiet ==
    /\ fsys = << >> :> Dir
    /\ script = "recon"
    /\ max_threads = 1
    /\ ReconIdle
    /\ CheckIdle
    /\ atlas = "BNA246"
    /\ AtlasIdle
    /\ TbssIdle
    /\ EnumIdle

QuietButLog ==
    /\ Quiet
    /\ DtiIdle
    /\ MetricsIdle
    /\ StatsIdle
    /\ MergeIdle
    /\ EnvIdle
    /\ RegIdle

QuietButDti ==
    /\ Quiet
    /\ LogIdle
    /\ MetricsIdle
    /\ StatsIdle
    /\ MergeIdle
    /\ EnvIdle
    /\ RegIdle

QuietButMetrics ==
    /\ Quiet
    /\ LogIdle
    /\ DtiIdle
    /\ StatsIdle
    /\ MergeIdle
    /\ EnvIdle
    /\ RegIdle

QuietButStats ==
    /\ Quiet
    /\ LogIdle
    /\ DtiIdle
    /\ MetricsIdle
    /\ MergeIdle
    /\ EnvIdle
    /\ RegIdle

QuietButMerge ==
    /\ Quiet
    /\ LogIdle
    /\ DtiIdle
    /\ MetricsIdle
    /\ StatsIdle
    /\ EnvIdle
    /\ RegIdle

QuietButEnv ==
    /\ Quiet
    /\ LogIdle
    /\ DtiIdle
    /\ MetricsIdle
    /\ StatsIdle
    /\ MergeIdle
    /\ RegIdle

QuietButReg ==
    /\ Quiet
    /\ LogIdle
    /\ DtiIdle
    /\ MetricsIdle
    /\ StatsIdle
    /\ MergeIdle
    /\ EnvIdle

Init ==
    /\ \E lay \in [Units -> Layouts] : fsys = Disk(lay, NumUnits)
    /\ script \in {"recon", "recon_ses"}
    /\ max_threads \in 1..MaxThreads
    /\ ReconIdle
    /\ CheckIdle
    /\ atlas = "BNA246"
    /\ AtlasIdle
    /\ TbssIdle
    /\ EnumIdle
    /\ RestIdle

\* ------------------------------------------------------------- helpers
Range(s) == {s[i] : i \in 1..Len(s)}

RECURSIVE SortedSeq(_)
SortedSeq(S) ==
    IF S = {} THEN <<>>
    ELSE LET m == CHOOSE x \in S : \A y \in S : x <= y
         IN  <<m>> \o SortedSeq(S \ {m})

\* pipelines executing in pool threads
Active == {u \in Units : pc[u] = "running"}

\* ------------------------------------------------------------- main
\* recon.py:54-63 / recon_ses.py:55-73: discover, sort, filter, submit
items(fs) == SortedSeq({u \in Units : Exists(fs, UnitPath(u))})

IncompleteTwice(fs) ==
    SelectSeq(items(fs) \o items(fs), LAMBDA u : ~check_completion(fs, u))
Incomplete(fs) == SelectSeq(items(fs), LAMBDA u : ~check_completion(fs, u))

\* the data root, base_path
Root == << >>

main_scan ==
    /\ mainpc = "idle"
    /\ run < MaxRuns
    /\ Exists(fsys, Root)
    /\ LET inc == Incomplete(fsys)
       IN  /\ run' = run + 1
           /\ incomplete_items' = inc
           /\ report' = [u \in Units |->
                            IF u \in Range(items(fsys)) \ Range(inc)
                            THEN "Skipped" ELSE "none"]
           /\ IF inc = <<>> /\ script = "recon_ses"
              THEN \* recon_ses.py:67-69 returns before the pool exists
                   /\ mainpc' = "idle"
                   /\ queue' = <<>>
                   /\ pc' = [u \in Units |-> "none"]
              ELSE /\ mainpc' = "pool"
                   /\ queue' = inc
                   /\ pc' = [u \in Units |->
                                IF u \in Range(inc) THEN "pending" ELSE "none"]
    /\ result' = [u \in Units |-> "none"]
    /\ donemsg' = FALSE
    /\ pre' = fsys
    /\ written' = {}
    /\ removed' = {}
    /\ invoked' = {}
    /\ exitcode' = NoReport
    /\ prevreport' = report
    /\ UNCHANGED <<fsys, script, max_threads, nonRecon>>

\* ----------------------------------------------------- process_subject
\* the pool never runs more than max_workers work items at a time
MayStartUnbounded(n, k) == TRUE
MayStartBelow(n, k) == n < k - 1
MayStart(n, k) == n < k

\* recon.py:33-35: remove a left-over fs directory
ResetFsNever(fs, u) == fs
ResetFsShared(fs, u) ==
    IF Exists(fs, fs_path(1)) THEN rmtree(fs, fs_path(1)) ELSE fs
ResetFs(fs, u) ==
    IF Exists(fs, fs_path(u)) THEN rmtree(fs, fs_path(u)) ELSE fs

\* A pool thread takes the oldest work item and runs process_subject up to
\* the point where subprocess.run waits for recon-all (recon.py:31-44).
\* started = FALSE: the binary cannot be started and subprocess.run raises
\* FileNotFoundError, which the except clause of line 46 does not name.
worker_start(started) ==
    /\ mainpc = "pool"
    /\ queue # <<>>
    /\ MayStart(Cardinality(Active), max_threads)
    /\ LET u == Head(queue)
       IN  /\ queue' = Tail(queue)
           /\ IF check_completion(fsys, u)
              THEN \* nothing to do: process_subject returns None
                   /\ pc' = [pc EXCEPT ![u] = "finished"]
                   /\ result' = [result EXCEPT ![u] = "None"]
                   /\ UNCHANGED <<fsys, removed, invoked, exitcode>>
              ELSE /\ fsys' = ResetFs(fsys, u)
                   /\ removed' = IF Exists(fsys, fs_path(u))
                                 THEN removed \cup {u} ELSE removed
                   /\ invoked' = invoked \cup {u}
                   /\ IF started
                      THEN /\ pc' = [pc EXCEPT ![u] = "running"]
                           /\ UNCHANGED <<result, exitcode>>
                      ELSE /\ pc' = [pc EXCEPT ![u] = "finished"]
                           /\ result' = [result EXCEPT ![u] = "raised"]
                           /\ exitcode' = [exitcode EXCEPT ![u] = "noexec"]
    /\ UNCHANGED <<script, max_threads, mainpc, run, incomplete_items, report,
                   donemsg, pre, written, prevreport, nonRecon>>

\* what process_subject does with the exit status (recon.py:45-48)
AfterExitIgnoreStatus(o) == [report |-> "Succeeded", result |-> "None"]
AfterExit(o) ==
    IF o = "ok"
    THEN [report |-> "Succeeded", result |-> "None"]
    ELSE [report |-> "Failed", result |-> "path_item"]

\* recon-all exits; check=True turns a nonzero status into CalledProcessError
tool_exit(u, o) ==
    /\ pc[u] = "running"
    /\ fsys' = ReconAll(fsys, u, o)
    /\ written' = written \cup DOMAIN ReconAllWrites(u, o)
    /\ exitcode' = [exitcode EXCEPT ![u] = o]
    /\ report' = [report EXCEPT ![u] = AfterExit(o).report]
    /\ result' = [result EXCEPT ![u] = AfterExit(o).result]
    /\ pc' = [pc EXCEPT ![u] = "finished"]
    /\ UNCHANGED <<script, max_threads, mainpc, run, incomplete_items, queue,
                   donemsg, pre, removed, invoked, prevreport, nonRecon>>

\* recon.py:64-71: as_completed has yielded every future and result() was
\* read for each (an exception it re-raises is printed, line 69); the with
\* block ends and the "Done" banner is printed
\* no work item is left in the pool's queue and none is being run
PoolDrainedNoWait == queue = <<>>
PoolDrained ==
    /\ queue = <<>>
    /\ \A u \in Units : pc[u] \in {"none", "finished"}

main_finish ==
    /\ mainpc = "pool"
    /\ PoolDrained
    /\ mainpc' = "idle"
    /\ report' = [u \in Units |->
                     IF result[u] = "raised" THEN "Failed" ELSE report[u]]
    /\ donemsg' = TRUE
    /\ UNCHANGED <<fsys, script, max_threads, run, incomplete_items, queue, pc,
                   result, pre, written, removed, invoked, exitcode, prevreport,
                   nonRecon>>

\* what main keeps of the values process_subject returned (the path_item of
\* a failed unit): future.result() is called as a statement, its value is
\* dropped, and main has no list or counter of outcomes (recon.py:64-71)
failed_items(res) == {}

\* what main prints when it ends: the banner of line 71 and nothing else
final_output == {"Done"}

Next ==
    \/ main_scan
    \/ \E started \in BOOLEAN : worker_start(started)
    \/ \E u \in Units, o \in ToolOutcomes : tool_exit(u, o)
    \/ main_finish

Spec == Init /\ [][Next]_vars

\* ------------------------------------------- discovery on any data root
\* recon.py:54 / recon_ses.py:55: Path(path_items).iterdir() raises
\* FileNotFoundError when the root is not there; nothing in main catches it
main_scan_raise ==
    /\ mainpc = "idle"
    /\ run < MaxRuns
    /\ ~Exists(fsys, Root)
    /\ run' = run + 1
    /\ mainpc' = "raised"
    /\ pre' = fsys
    /\ prevreport' = report
    /\ UNCHANGED <<fsys, script, max_threads, incomplete_items, queue, pc,
                   result, report, donemsg, written, removed, invoked,
                   exitcode, nonRecon>>

\* no root at all, an empty root, and roots whose units are all alike
NoDisk == [p \in {} |-> Dir]

RootDisks ==
    {NoDisk, Root :> Dir}
    \cup {Disk([u \in Units |-> l], NumUnits) : l \in Layouts}

InitRoot ==
    /\ fsys \in RootDisks
    /\ script \in {"recon", "recon_ses"}
    /\ max_threads \in 1..MaxThreads
    /\ ReconIdle
    /\ CheckIdle
    /\ atlas = "BNA246"
    /\ AtlasIdle
    /\ TbssIdle
    /\ EnumIdle
    /\ RestIdle

NextRoot ==
    \/ main_scan
    \/ main_scan_raise
    \/ \E started \in BOOLEAN : worker_start(started)
    \/ \E u \in Units, o \in ToolOutcomes : tool_exit(u, o)
    \/ main_finish

SpecRoot == InitRoot /\ [][NextRoot]_vars

\* A pool thread that is free takes the next work item, and every recon-all
\* that was started exits at some time.
Fairness ==
    /\ WF_vars(\E started \in BOOLEAN : worker_start(started))
    /\ \A u \in Units : WF_vars(\E o \in ToolOutcomes : tool_exit(u, o))
    /\ WF_vars(main_finish)

\* the last invocation of main that is followed, on the disks whose units
\* are complete or were left behind by a failed recon-all
InitLast ==
    /\ \E lay \in [Units -> {"done", "stale"}] : fsys = Disk(lay, NumUnits)
    /\ script \in {"recon", "recon_ses"}
    /\ max_threads \in 1..MaxThreads
    /\ mainpc = "idle"
    /\ run = MaxRuns - 1
    /\ incomplete_items = <<>>
    /\ queue = <<>>
    /\ pc = [u \in Units |-> "none"]
    /\ result = [u \in Units |-> "none"]
    /\ report = NoReport
    /\ donemsg = FALSE
    /\ pre = fsys
    /\ written = {}
    /\ removed = {}
    /\ invoked = {}
    /\ exitcode = NoReport
    /\ prevreport = NoReport
    /\ CheckIdle
    /\ atlas = "BNA246"
    /\ AtlasIdle
    /\ TbssIdle
    /\ EnumIdle
    /\ RestIdle

FairSpec == InitLast /\ [][Next]_vars /\ Fairness

\* ------------------------------------------- check_completion, called alone
\* disks on which unit 1 is absent, bare, or has any mix of done file and log
CheckDisks ==
    LET root == << >> :> Dir
        unit == root @@ (UnitPath(1) :> Dir)
        fsd == unit @@ (fs_path(1) :> Dir)
        scr == fsd @@ (scripts_path(1) :> Dir)
        withDone == {scr, scr @@ (done_file(1) :> File("empty"))}
    IN  {root, unit, fsd}
        \cup withDone
        \cup {d @@ (log_file(1) :> File(t)) : d \in withDone, t \in DOMAIN Texts}

InitCheck ==
    /\ \E d \in CheckDisks, lay \in [Units -> {"fresh"}] :
          fsys = d @@ Disk(lay, NumUnits)
    /\ script = "recon"
    /\ max_threads = 1
    /\ ReconIdle
    /\ CheckIdle
    /\ atlas = "BNA246"
    /\ AtlasIdle
    /\ TbssIdle
    /\ EnumIdle
    /\ RestIdle

Str(b) == IF b THEN "True" ELSE "False"

\* recon.py:14-26, one call
check_call(u) ==
    /\ calls < MaxCalls
    /\ calls' = calls + 1
    /\ checked' = [checked EXCEPT ![u] = Str(check_completion(fsys, u))]
    /\ fsys' = check_completion_fs(fsys, u)
    /\ UNCHANGED <<script, max_threads, mainpc, run, incomplete_items, queue,
                   pc, result, report, donemsg, pre, written, removed, invoked,
                   exitcode, prevreport, atlasVars, tbssVars, enumVars, restVars>>

NextCheck == \E u \in Units : check_call(u)

SpecCheck == InitCheck /\ [][NextCheck]_vars

\* ------------------------------------------------- atlas batch scripts
Atlases == {"BNA246", "BNA246_HCPMMP1", "BNA246_HCPMMP1_Schaefer200"}

\* number of commands process_subject runs, one after the other
NumCmds(a) ==
    CASE a = "BNA246" -> 6
      [] a = "BNA246_HCPMMP1" -> 10
      [] a = "BNA246_HCPMMP1_Schaefer200" -> 14

Perms(S) == {q \in [1..Cardinality(S) -> S] : \A x \in S : \E i \in DOMAIN q : q[i] = x}

InitAtlas ==
    /\ fsys = << >> :> Dir
    /\ script = "recon"
    /\ max_threads = 1
    /\ ReconIdle
    /\ CheckIdle
    /\ atlas \in Atlases
    /\ AtlasIdle
    /\ TbssIdle
    /\ EnumIdle
    /\ RestIdle

\* __main__: os.listdir gives the subjects in some order, executor.map
\* submits process_subject for each of them
atlas_submit ==
    /\ amainpc = "start"
    /\ amainpc' = "pool"
    /\ \E order \in Perms(Subjects) : aqueue' = order
    /\ apc' = [s \in Subjects |-> "pending"]
    /\ UNCHANGED <<atlas, step, trace, areport, aresult,
                   nonAtlas>>

AActive == {s \in Subjects : apc[s] \in {"between", "running"}}

\* the script that keeps a log file (LOG_PATH, write_log)
HasLog(a) == a = "BNA246_HCPMMP1_Schaefer200"

\* a pool thread takes the oldest subject and enters process_subject;
\* logged = FALSE: open(LOG_PATH, "a") or the write fails and write_log
\* raises OSError; the START entry of line 138 is written before the try
atlas_worker_start(logged) ==
    /\ amainpc = "pool"
    /\ aqueue # <<>>
    /\ MayStart(Cardinality(AActive), MAX_THREADS)
    /\ aqueue' = Tail(aqueue)
    /\ IF HasLog(atlas) /\ ~logged
       THEN /\ apc' = [apc EXCEPT ![Head(aqueue)] = "finished"]
            /\ aresult' = [aresult EXCEPT ![Head(aqueue)] = "log_raised"]
       ELSE /\ apc' = [apc EXCEPT ![Head(aqueue)] = "between"]
            /\ UNCHANGED aresult
    /\ UNCHANGED <<atlas, amainpc, step, trace, areport,
                   nonAtlas>>

Event(e, i, c) == [ev |-> e, cmd |-> i, code |-> c]

\* subprocess.run(cmd, env=env, check=True) for the next command of cmds;
\* started = FALSE: the binary cannot be started, subprocess.run raises
\* FileNotFoundError, which no except clause of process_subject names
atlas_step_start(s, started) ==
    /\ apc[s] = "between"
    /\ step' = [step EXCEPT ![s] = @ + 1]
    /\ IF started
       THEN /\ apc' = [apc EXCEPT ![s] = "running"]
            /\ trace' = [trace EXCEPT ![s] = Append(@, Event("start", step[s] + 1, 0))]
            /\ UNCHANGED <<areport, aresult>>
       ELSE /\ apc' = [apc EXCEPT ![s] = "finished"]
            /\ trace' = [trace EXCEPT ![s] =
                            @ \o <<Event("start", step[s] + 1, 0),
                                   Event("noexec", step[s] + 1, 0)>>]
            /\ aresult' = [aresult EXCEPT ![s] = "raised"]
            /\ UNCHANGED areport
    /\ UNCHANGED <<atlas, amainpc, aqueue,
                   nonAtlas>>

\* where process_subject goes when command i of n has exited with status c:
\* check=True raises CalledProcessError on a nonzero status, which ends the
\* try block; the except clause prints ERROR
AfterStepNoCheck(c, i, n) ==
    IF i < n THEN [pc |-> "between", report |-> "none", result |-> "none"]
    ELSE [pc |-> "finished", report |-> "finished", result |-> "None"]
AfterStep(c, i, n) ==
    IF c # 0 THEN [pc |-> "finished", report |-> "ERROR", result |-> "None"]
    ELSE IF i < n THEN [pc |-> "between", report |-> "none", result |-> "none"]
    ELSE [pc |-> "finished", report |-> "finished", result |-> "None"]

\* logged = FALSE: the write_log of line 144 or 147, which comes before the
\* print, raises OSError and that leaves process_subject
atlas_step_exit(s, c, logged) ==
    /\ apc[s] = "running"
    /\ trace' = [trace EXCEPT ![s] = Append(@, Event("exit", step[s], c))]
    /\ LET nxt == AfterStep(c, step[s], NumCmds(atlas))
       IN  /\ apc' = [apc EXCEPT ![s] = nxt.pc]
           /\ IF nxt.pc = "finished" /\ HasLog(atlas) /\ ~logged
              THEN /\ aresult' = [aresult EXCEPT ![s] = "log_raised"]
                   /\ UNCHANGED areport
              ELSE /\ areport' = [areport EXCEPT ![s] = nxt.report]
                   /\ aresult' = [aresult EXCEPT ![s] = nxt.result]
    /\ UNCHANGED <<atlas, amainpc, aqueue, step,
                   nonAtlas>>

\* the with block ends when every call has ended; the iterator executor.map
\* returned is never read, so what the calls returned or raised is dropped
\* where __main__ goes after the with block, given how the calls ended
MainReadsResults(res) ==
    IF \E s \in Subjects : res[s] \in {"raised", "log_raised"} THEN "raised" ELSE "end"
MainAfterMap(res) == "end"

atlas_main_end ==
    /\ amainpc = "pool"
    /\ aqueue = <<>>
    /\ \A s \in Subjects : apc[s] = "finished"
    /\ amainpc' = MainAfterMap(aresult)
    /\ UNCHANGED <<atlas, aqueue, apc, step, trace, areport, aresult,
                   nonAtlas>>

NextAtlas ==
    \/ atlas_submit
    \/ \E logged \in BOOLEAN : atlas_worker_start(logged)
    \/ \E s \in Subjects, started \in BOOLEAN : atlas_step_start(s, started)
    \/ \E s \in Subjects, c \in {0, 1}, logged \in BOOLEAN :
          atlas_step_exit(s, c, logged)
    \/ atlas_main_end

SpecAtlas == InitAtlas /\ [][NextAtlas]_vars

\* ------------------------------------- TBSS/1_famd_erode_register.py
\* MAX_JOBS of the registration script
MAX_JOBS == 20

\* external commands of run_preproc_reg with DO_ERODE = 1: fslval (three
\* times), fslmaths (twice), flirt, fnirt, applywarp
NumRegCmds == 8

InitTbss ==
    /\ fsys = << >> :> Dir
    /\ script = "recon"
    /\ max_threads = 1
    /\ ReconIdle
    /\ CheckIdle
    /\ atlas = "BNA246"
    /\ AtlasIdle
    /\ TbssIdle
    /\ EnumIdle
    /\ RestIdle

\* main, lines 146-164: the subject directories that hold dwi/dtifit, in
\* the order os.listdir gave them, are submitted to the pool
tbss_submit ==
    /\ tmainpc = "start"
    /\ tmainpc' = "pool"
    /\ \E order \in Perms(Subjects) : tqueue' = order
    /\ tpc' = [s \in Subjects |-> "pending"]
    /\ UNCHANGED <<tstep, tresult, tmsg, nonTbss>>

TActive == {s \in Subjects : tpc[s] \in {"between", "running"}}

\* a pool thread takes the oldest work item and runs run_preproc_reg up to
\* the input check of lines 62-64; without dti_FA or dti_MD it returns
tbss_worker_start(has_inputs) ==
    /\ tmainpc \in {"pool", "raising"}
    /\ tqueue # <<>>
    /\ MayStart(Cardinality(TActive), MAX_JOBS)
    /\ tqueue' = Tail(tqueue)
    /\ IF has_inputs
       THEN /\ tpc' = [tpc EXCEPT ![Head(tqueue)] = "between"]
            /\ UNCHANGED tresult
       ELSE /\ tpc' = [tpc EXCEPT ![Head(tqueue)] = "finished"]
            /\ tresult' = [tresult EXCEPT ![Head(tqueue)] = "None"]
    /\ UNCHANGED <<tmainpc, tstep, tmsg, nonTbss>>

\* run_cmd (lines 23-25) or check_output (69-71) starts the next command;
\* started = FALSE: the binary cannot be started and the call raises
run_cmd_start(s, started) ==
    /\ tpc[s] = "between"
    /\ tstep' = [tstep EXCEPT ![s] = @ + 1]
    /\ IF started
       THEN /\ tpc' = [tpc EXCEPT ![s] = "running"]
            /\ UNCHANGED tresult
       ELSE /\ tpc' = [tpc EXCEPT ![s] = "finished"]
            /\ tresult' = [tresult EXCEPT ![s] = "OSError"]
    /\ UNCHANGED <<tmainpc, tqueue, tmsg, nonTbss>>

\* where run_preproc_reg goes when command i of n has exited with status
\* c: check=True raises CalledProcessError on a nonzero status and nothing
\* in run_preproc_reg or run_cmd catches it
AfterCmd(c, i, n) ==
    IF c # 0 THEN [pc |-> "finished", result |-> "CalledProcessError"]
    ELSE IF i < n THEN [pc |-> "between", result |-> "none"]
    ELSE [pc |-> "finished", result |-> "None"]

run_cmd_exit(s, c) ==
    /\ tpc[s] = "running"
    /\ tpc' = [tpc EXCEPT ![s] = AfterCmd(c, tstep[s], NumRegCmds).pc]
    /\ tresult' = [tresult EXCEPT ![s] = AfterCmd(c, tstep[s], NumRegCmds).result]
    /\ UNCHANGED <<tmainpc, tqueue, tstep, tmsg, nonTbss>>

\* the exceptions a run_preproc_reg call can end with
Raised == {"CalledProcessError", "OSError"}

\* lines 166-167: as_completed yields a future whose call raised and
\* future.result() raises that exception in main, outside any try; the
\* with block is left through __exit__, which waits for the pool
tbss_main_raise ==
    /\ tmainpc = "pool"
    /\ \E s \in Subjects : tpc[s] = "finished" /\ tresult[s] \in Raised
    /\ tmainpc' = "raising"
    /\ UNCHANGED <<tqueue, tpc, tstep, tresult, tmsg, nonTbss>>

\* a main that left the with block as soon as result() raised
TbssFirstRaise == \E s \in Subjects : tpc[s] = "finished" /\ tresult[s] \in Raised

TbssDrained == tqueue = <<>> /\ \A s \in Subjects : tpc[s] = "finished"

\* the pool has drained and the exception leaves main: line 169 is not run
tbss_main_crash ==
    /\ tmainpc = "raising"
    /\ TbssDrained
    /\ tmainpc' = "crashed"
    /\ UNCHANGED <<tqueue, tpc, tstep, tresult, tmsg, nonTbss>>

\* every result() returned: the with block ends, line 169 prints the
\* closing message
tbss_main_end ==
    /\ tmainpc = "pool"
    /\ TbssDrained
    /\ \A s \in Subjects : tresult[s] \notin Raised
    /\ tmainpc' = "done"
    /\ tmsg' = TRUE
    /\ UNCHANGED <<tqueue, tpc, tstep, tresult, nonTbss>>

NextTbss ==
    \/ tbss_submit
    \/ \E has_inputs \in BOOLEAN : tbss_worker_start(has_inputs)
    \/ \E s \in Subjects, started \in BOOLEAN : run_cmd_start(s, started)
    \/ \E s \in Subjects, c \in {0, 1} : run_cmd_exit(s, c)
    \/ tbss_main_raise
    \/ tbss_main_crash
    \/ tbss_main_end

SpecTbss == InitTbss /\ [][NextTbss]_vars

\* ------------------------------------------------ listing of DATA_DIR
InitEnum ==
    /\ fsys = << >> :> Dir
    /\ script = "recon"
    /\ max_threads = 1
    /\ ReconIdle
    /\ CheckIdle
    /\ atlas = "BNA246"
    /\ AtlasIdle
    /\ TbssIdle
    /\ RestIdle
    /\ listing \in [Names -> {"absent", "dir", "file"}]
    /\ visited = {}
    /\ selected = [e \in Enumerations |-> {}]

\* run_atlas_batch.py (BNA246_HCPMMP1) 132-135: the fsaverage link is made
\* in DATA_DIR when nothing of that name exists; the other scripts leave
\* DATA_DIR as it is
BeforeListing(e, l) ==
    IF e = "BNA246_HCPMMP1" /\ l["fsaverage"] = "absent"
    THEN [l EXCEPT !["fsaverage"] = "dir"]
    ELSE l

\* the list comprehension over os.listdir(DATA_DIR): directories only,
\* and in two of the atlas scripts `name != "fsaverage"`
Keeps(e, l) ==
    LET dirs == {n \in Names : l[n] = "dir"}
    IN  IF e \in {"BNA246_HCPMMP1", "BNA246_HCPMMP1_Schaefer200"}
        THEN dirs \ {"fsaverage"}
        ELSE dirs

\* one enumeration runs: what it keeps is submitted to the pool (atlas
\* batches), written to the subject path file, or given a row of Global.csv
enumerate(e) ==
    /\ e \notin visited
    /\ visited' = visited \cup {e}
    /\ listing' = BeforeListing(e, listing)
    /\ selected' = [selected EXCEPT ![e] = Keeps(e, BeforeListing(e, listing))]
    /\ UNCHANGED nonEnum

NextEnum == \E e \in Enumerations : enumerate(e)

SpecEnum == InitEnum /\ [][NextEnum]_vars

\* ------------------------------------------------------------ write_log
\* write_log calls of one pool thread: process_subject writes the START
\* entry and then Finished or ERROR (run_atlas_batch.py:138-147)
LogCalls == 2

\* the messages call k of a thread may carry.  run_one of the stats batch
\* puts the stderr of the command, line breaks included, into its FAIL
\* message (run_stats_batch.py:144-147)
Messages(sc, k) ==
    IF sc = "atlas"
    THEN IF k = 1 THEN {"START"} ELSE {"Finished", "ERROR"}
    ELSE {"success", "FAIL"}

MsgText ==
    [START |-> <<"START">>, Finished |-> <<"Finished">>, ERROR |-> <<"ERROR">>,
     success |-> <<"success">>, FAIL |-> <<"FAIL", "\n", "stderr">>]

Token(w, k, t) == [w |-> w, k |-> k, s |-> t]

\* f"{timestamp} {msg}\n" of call k of thread w
Entry(w, k, m) ==
    <<Token(w, k, "timestamp")>>
    \o [i \in 1..Len(MsgText[m]) |-> Token(w, k, MsgText[m][i])]
    \o <<Token(w, k, "\n")>>

InitLog ==
    /\ QuietButLog
    /\ logscript \in {"atlas", "stats"}
    /\ logfile = <<>>
    /\ lpc = [w \in Subjects |-> "closed"]
    /\ lpos = [w \in Subjects |-> 0]
    /\ lcount = [w \in Subjects |-> 0]
    /\ lwritten = <<>>

\* open(LOG_PATH, "a"): the position is the end of the file
log_open(w) ==
    /\ lpc[w] = "closed"
    /\ lcount[w] < LogCalls
    /\ lpc' = [lpc EXCEPT ![w] = "open"]
    /\ lpos' = [lpos EXCEPT ![w] = Len(logfile)]
    /\ UNCHANGED <<logscript, logfile, lcount, lwritten, nonLog>>

\* where a write lands in a file opened for appending: at what is the end
\* of the file when the write happens, wherever the open left the position
WritePosAtOpen(pos, len) == pos
WritePos(pos, len) == len

WriteAt(file, pos, data) ==
    SubSeq(file, 1, pos) \o data \o SubSeq(file, pos + Len(data) + 1, Len(file))

\* f.write(...) and the end of the with block: the text was buffered and
\* reaches the file in one write when the file is closed
log_write_close(w, m) ==
    /\ lpc[w] = "open"
    /\ m \in Messages(logscript, lcount[w] + 1)
    /\ logfile' = WriteAt(logfile, WritePos(lpos[w], Len(logfile)),
                          Entry(w, lcount[w] + 1, m))
    /\ lwritten' = Append(lwritten, [w |-> w, k |-> lcount[w] + 1, m |-> m])
    /\ lcount' = [lcount EXCEPT ![w] = @ + 1]
    /\ lpc' = [lpc EXCEPT ![w] = "closed"]
    /\ UNCHANGED <<logscript, lpos, nonLog>>

NextLog ==
    \/ \E w \in Subjects : log_open(w)
    \/ \E w \in Subjects, m \in DOMAIN MsgText : log_write_close(w, m)

SpecLog == InitLog /\ [][NextLog]_vars

\* ------------------------------------------------------ TBSS/2_dtifit.py
\* max_workers of the dtifit batch
DTI_MAX_WORKERS == 10

InitDti ==
    /\ QuietButDti
    /\ dmainpc = "start"
    /\ dqueue = <<>>
    /\ dpc = [s \in Subjects |-> "none"]
    /\ dtidir \in [Subjects -> {"absent", "present", "no dwi"}]
    /\ dmade = [s \in Subjects |-> "none"]
    /\ dinvoked = {}

\* main, lines 38-46: every directory below base_dir goes to executor.map
dti_submit ==
    /\ dmainpc = "start"
    /\ dmainpc' = "pool"
    /\ \E order \in Perms(Subjects) : dqueue' = order
    /\ dpc' = [s \in Subjects |-> "pending"]
    /\ UNCHANGED <<dtidir, dmade, dinvoked, nonDti>>

DActive == {s \in Subjects : dpc[s] = "running"}

\* run_dtifit, lines 7-22: the output directory is made when it is not
\* there, together with dwi when that is missing too; made = FALSE: os.makedirs raises OSError and the call returns
run_dtifit_start(made) ==
    /\ dmainpc = "pool"
    /\ dqueue # <<>>
    /\ MayStart(Cardinality(DActive), DTI_MAX_WORKERS)
    /\ dqueue' = Tail(dqueue)
    /\ LET s == Head(dqueue)
       IN  IF dtidir[s] = "present"
           THEN /\ dmade' = [dmade EXCEPT ![s] = "existed"]
                /\ dpc' = [dpc EXCEPT ![s] = "running"]
                /\ UNCHANGED dtidir
           ELSE IF made
           THEN /\ dmade' = [dmade EXCEPT ![s] = "created"]
                /\ dtidir' = [dtidir EXCEPT ![s] = "present"]
                /\ dpc' = [dpc EXCEPT ![s] = "running"]
           ELSE /\ dmade' = [dmade EXCEPT ![s] = "OSError"]
                /\ dpc' = [dpc EXCEPT ![s] = "finished"]
                /\ UNCHANGED dtidir
    /\ UNCHANGED <<dmainpc, dinvoked, nonDti>>

\* the processes run_dtifit starts after building its command list: the
\* list is bound to the name command and the function ends (lines 24-33)
Launched(s) == {}

\* run_dtifit, lines 24-33
run_dtifit_end(s) ==
    /\ dpc[s] = "running"
    /\ dinvoked' = dinvoked \cup Launched(s)
    /\ dpc' = [dpc EXCEPT ![s] = "finished"]
    /\ UNCHANGED <<dmainpc, dqueue, dtidir, dmade, nonDti>>

\* the with block ends when every call has ended
dti_main_end ==
    /\ dmainpc = "pool"
    /\ dqueue = <<>>
    /\ \A s \in Subjects : dpc[s] = "finished"
    /\ dmainpc' = "end"
    /\ UNCHANGED <<dqueue, dpc, dtidir, dmade, dinvoked, nonDti>>

NextDti ==
    \/ dti_submit
    \/ \E made \in BOOLEAN : run_dtifit_start(made)
    \/ \E s \in Subjects : run_dtifit_end(s)
    \/ dti_main_end

SpecDti == InitDti /\ [][NextDti]_vars

\* ===================================================================
\* SpecMetrics: extract_global_metrics applied to one subject directory
\* ===================================================================
MaxOdd == 1

\* what a pattern of the file can find: the vertex patterns capture (\d+),
\* the others (\S+); all but MaxOdd patterns of a file find the number 2
Tokens(m) ==
    IF m \in {"lhVertex", "rhVertex"} THEN {NoMatch, Digits(0), Digits(2)}
    ELSE {NoMatch, Text, Digits(0), Digits(2)}

InitMetrics ==
    /\ QuietButMetrics
    /\ statfiles \in [StatsFiles -> {"present", "absent"}]
    /\ \E odd \in {o \in SUBSET Sourced : Cardinality(o) <= MaxOdd} :
          \E f \in [odd -> {NoMatch, Text, Digits(0)}] :
             /\ \A m \in odd : statfiles[SourceFile(m)] = "present" /\ f[m] \in Tokens(m)
             /\ captures = [m \in Sourced |->
                               IF statfiles[SourceFile(m)] = "absent" THEN NoMatch
                               ELSE IF m \in odd THEN f[m] ELSE Digits(2)]
    /\ mpc = "before"
    /\ metrics = [m \in Sourced \cup Derived |-> Unset]
    /\ warned = {}

\* float(match.group(1)) / int(value): a ValueError for text that is no number
Unparsable(files, caps) ==
    {m \in Sourced : files[SourceFile(m)] = "present" /\ caps[m] = Text}

FromFileNoNaN(files, caps, m) ==
    IF files[SourceFile(m)] = "present" THEN Num(caps[m].v) ELSE Unset

\* the loops over the three stats files (lines 285-324)
FromFile(files, caps, m) ==
    IF files[SourceFile(m)] = "present"
    THEN IF caps[m] = NoMatch THEN NaN ELSE Num(caps[m].v)
    ELSE Unset

FileWarnings(files, caps) ==
    {<<m, SourceFile(m)>> : m \in {k \in Sourced : /\ files[SourceFile(k)] = "present"
                                                   /\ caps[k] = NoMatch}}

\* arithmetic of Python floats: NaN absorbs, NaN > 0 is False
Plus(a, b) == IF a = NaN \/ b = NaN THEN NaN ELSE Num(a.v + b.v)
Times(a, b) == IF a = NaN \/ b = NaN THEN NaN ELSE Num(a.v * b.v)
Over(a, b) == IF a = NaN \/ b = NaN THEN NaN ELSE Quotient(a.v, b.v)
Positive(a) == a # NaN /\ a.v > 0

\* lines 326-341
meanCT2(d) ==
    IF \A k \in {"lhVertex", "lhMeanThickness", "rhVertex", "rhMeanThickness"} : d[k] # Unset
    THEN LET total_vertices == Plus(d["lhVertex"], d["rhVertex"])
         IN  IF Positive(total_vertices)
             THEN [value |-> Over(Plus(Times(d["lhVertex"], d["lhMeanThickness"]),
                                       Times(d["rhVertex"], d["rhMeanThickness"])),
                                  total_vertices),
                   warn |-> {}]
             ELSE [value |-> NaN, warn |-> {<<"meanCT2", "vertex count is zero">>}]
    ELSE [value |-> NaN, warn |-> {<<"meanCT2", "missing vertex/thickness info">>}]

\* lines 343-352
totalSA2(d) ==
    IF d["lh_totaISA2"] # Unset /\ d["rh_totaISA2"] # Unset
    THEN [value |-> Plus(d["lh_totaISA2"], d["rh_totaISA2"]), warn |-> {}]
    ELSE [value |-> NaN, warn |-> {<<"totalSA2", "missing total area info">>}]

extract_global_metrics ==
    /\ mpc = "before"
    /\ IF Unparsable(statfiles, captures) # {}
       THEN /\ mpc' = "raised"
            /\ UNCHANGED metrics
            \* the warnings printed before the ValueError are not modelled
            /\ UNCHANGED warned
       ELSE LET d == [m \in Sourced |-> FromFile(statfiles, captures, m)]
                ct == meanCT2(d)
                sa == totalSA2(d)
            IN  /\ mpc' = "returned"
                /\ metrics' = [m \in Sourced \cup Derived |->
                                  IF m = "meanCT2" THEN ct.value
                                  ELSE IF m = "totalSA2" THEN sa.value ELSE d[m]]
                /\ warned' = FileWarnings(statfiles, captures) \cup ct.warn \cup sa.warn
    /\ UNCHANGED <<statfiles, captures, nonMetrics>>

NextMetrics == extract_global_metrics

SpecMetrics == InitMetrics /\ [][NextMetrics]_vars

\* ===================================================================
\* SpecStats: main of run_stats_batch.py, its six stages and the pool of
\* run_aparcstats2table_parallel
\* ===================================================================
STATS_MAX_WORKERS == 8

\* os.path.join(parc_output_dir, f"{hemi}.{parc}.{meas}.csv"); the names
\* hold no path separator, so the parts stay apart
OutputFileNoMeas(hemi, meas, parc) == <<parc, hemi, parc>>
OutputFile(hemi, meas, parc) == <<parc, hemi, parc, meas>>

Task(hemi, meas, parc, idx) ==
    [cmd |-> <<"aparcstats2table", "subj_path.txt", hemi, meas, parc,
               OutputFile(hemi, meas, parc), "comma", "skip">>,
     output_file |-> OutputFile(hemi, meas, parc),
     idx |-> idx,
     total |-> total]

\* the three nested loops of lines 178-195, idx starting at 1
RECURSIVE BuildTasks(_, _, _, _, _)
BuildTasks(h, m, p, idx, tasks) ==
    IF h > Len(HEMISPHERES) THEN tasks
    ELSE IF m > Len(MEASUREMENTS) THEN BuildTasks(h + 1, 1, 1, idx, tasks)
    ELSE IF p > Len(PARCELLATIONS) THEN BuildTasks(h, m + 1, 1, idx, tasks)
    ELSE BuildTasks(h, m, p + 1, idx + 1,
                    Append(tasks, Task(HEMISPHERES[h], MEASUREMENTS[m], PARCELLATIONS[p], idx)))

tasks == BuildTasks(1, 1, 1, 1, << >>)

\* the threads the pool may run at once
PoolThreads == IF STATS_MAX_WORKERS < MaxThreads THEN STATS_MAX_WORKERS ELSE MaxThreads

InitStats ==
    /\ QuietButStats
    /\ spc = "begin"
    /\ subj_count = 0
    /\ squeue = << >>
    /\ srunning = {}
    /\ launched = [i \in 1..total |-> 0]
    /\ pools = 0
    /\ asegi = 0
    /\ aseglaunched = 0
    /\ stages = << >>
    /\ slog = << >>

\* write_log("=== BATCH START ===")
stats_begin ==
    /\ spc = "begin"
    /\ slog' = Append(slog, "BATCH START")
    /\ spc' = "subjects"
    /\ UNCHANGED <<subj_count, squeue, srunning, launched, pools, asegi, aseglaunched,
                   stages, nonStats>>

\* n directories under DATA_DIR
generate_subject_path_file(n) ==
    /\ spc = "subjects"
    /\ subj_count' = n
    /\ slog' = Append(slog, "Generated subject path file")
    /\ stages' = Append(stages, "subjects")
    /\ spc' = "dirs"
    /\ UNCHANGED <<squeue, srunning, launched, pools, asegi, aseglaunched, nonStats>>

create_parc_directories ==
    /\ spc = "dirs"
    /\ stages' = Append(stages, "dirs")
    /\ spc' = "aparc"
    /\ UNCHANGED <<subj_count, squeue, srunning, launched, pools, asegi, aseglaunched,
                   slog, nonStats>>

\* if subj_count == 0: print("[WARN] No subjects found."); return
NoSubjectsNever(n) == FALSE
NoSubjects(n) == n = 0

\* run_aparcstats2table_parallel up to the submission of executor.map
run_aparcstats2table_parallel ==
    /\ spc = "aparc"
    /\ stages' = Append(stages, "aparc")
    /\ IF NoSubjects(subj_count)
       THEN /\ spc' = "aseg"
            /\ UNCHANGED <<squeue, pools>>
       ELSE /\ pools' = pools + 1
            /\ squeue' = [i \in 1..Len(tasks) |-> tasks[i].idx]
            /\ spc' = "pool"
    /\ UNCHANGED <<subj_count, srunning, launched, asegi, aseglaunched, slog, nonStats>>

\* a pool thread takes the next task: run_one up to subprocess.run
run_one_start ==
    /\ spc = "pool"
    /\ squeue # << >>
    /\ Cardinality(srunning) < PoolThreads
    /\ srunning' = srunning \cup {Head(squeue)}
    /\ squeue' = Tail(squeue)
    /\ launched' = [launched EXCEPT ![Head(squeue)] = @ + 1]
    /\ UNCHANGED <<spc, subj_count, pools, asegi, aseglaunched, stages, slog, nonStats>>

\* the command of task t is over (exit 0, another exit status, or no launch):
\* each branch of run_one writes one log entry
run_one_end(t) ==
    /\ t \in srunning
    /\ srunning' = srunning \ {t}
    /\ slog' = Append(slog, "aparcstats2table")
    /\ UNCHANGED <<spc, subj_count, squeue, launched, pools, asegi, aseglaunched,
                   stages, nonStats>>

\* list(executor.map(...)) has every result and the with block has shut the
\* pool down
StatsSubmitted == TRUE
StatsDrained == squeue = << >> /\ srunning = {}

aparc_parallel_end ==
    /\ spc = "pool"
    /\ StatsDrained
    /\ spc' = "aseg"
    /\ UNCHANGED <<subj_count, squeue, srunning, launched, pools, asegi, aseglaunched,
                   stages, slog, nonStats>>

\* run_asegstats2table: the early return, or one pass of the loop; a
\* command that cannot be launched raises out of main
run_asegstats2table(ran) ==
    /\ spc = "aseg"
    /\ stages' = IF asegi = 0 THEN Append(stages, "aseg") ELSE stages
    /\ IF NoSubjects(subj_count)
       THEN /\ ran
            /\ spc' = "global"
            /\ UNCHANGED <<asegi, aseglaunched, slog>>
       ELSE IF ran
            THEN /\ asegi' = asegi + 1
                 /\ aseglaunched' = aseglaunched + 1
                 /\ slog' = Append(slog, "asegstats2table")
                 /\ spc' = IF asegi + 1 = Len(SUBCORTICAL_STATS) THEN "global" ELSE "aseg"
            ELSE /\ spc' = "raised"
                 /\ UNCHANGED <<asegi, aseglaunched, slog>>
    /\ UNCHANGED <<subj_count, squeue, srunning, launched, pools, nonStats>>

generate_global_csv ==
    /\ spc = "global"
    /\ stages' = Append(stages, "global")
    /\ spc' = "excel"
    /\ UNCHANGED <<subj_count, squeue, srunning, launched, pools, asegi, aseglaunched,
                   slog, nonStats>>

\* generate_all_excel_files; wb.save raises out of main for a workbook
\* left without a sheet
generate_all_excel_files(saved) ==
    /\ spc = "excel"
    /\ stages' = Append(stages, "excel")
    /\ spc' = IF saved THEN "finish" ELSE "raised"
    /\ UNCHANGED <<subj_count, squeue, srunning, launched, pools, asegi, aseglaunched,
                   slog, nonStats>>

\* write_log("=== BATCH FINISHED ===")
stats_finish ==
    /\ spc = "finish"
    /\ slog' = Append(slog, "BATCH FINISHED")
    /\ spc' = "done"
    /\ UNCHANGED <<subj_count, squeue, srunning, launched, pools, asegi, aseglaunched,
                   stages, nonStats>>

NextStats ==
    \/ stats_begin
    \/ \E n \in 0..NumSubjects : generate_subject_path_file(n)
    \/ create_parc_directories
    \/ run_aparcstats2table_parallel
    \/ run_one_start
    \/ \E t \in 1..total : run_one_end(t)
    \/ aparc_parallel_end
    \/ \E ran \in BOOLEAN : run_asegstats2table(ran)
    \/ generate_global_csv
    \/ \E saved \in BOOLEAN : generate_all_excel_files(saved)
    \/ stats_finish

SpecStats == InitStats /\ [][NextStats]_vars

\* ===================================================================
\* SpecMerge: merge_parc_to_excel for one parcellation
\* ===================================================================
\* the statement of the try block at which merging a CSV raises, if any:
\* pd.read_csv (unreadable or malformed file), the rewriting of the first
\* column, or ws.append after wb.create_sheet has added the sheet
Fates == {"ok", "read_csv", "first_column", "append"}

InitMerge ==
    /\ QuietButMerge
    /\ mparc \in {PARCELLATIONS[p] : p \in 1..Len(PARCELLATIONS)}
    /\ parc_dir \in BOOLEAN
    /\ csvs \in [CsvFiles -> Fates \cup {"absent"}]
    /\ ~parc_dir => \A f \in CsvFiles : csvs[f] = "absent"
    \* the first column of Global.csv is not rewritten
    /\ csvs[Global] # "first_column"
    /\ xpc = "begin"
    /\ todo = {}
    /\ sheets = [f \in CsvFiles |-> "none"]
    /\ default_sheet = FALSE
    /\ wb_saved = FALSE

\* the try block of lines 425-431 and 438-447 for file f
SheetAfter(fate) ==
    IF fate = "ok" THEN "full"
    ELSE IF fate = "append" THEN "partial" ELSE "none"

\* lines 414-420: the directory test and wb = Workbook()
merge_begin ==
    /\ xpc = "begin"
    /\ IF parc_dir
       THEN /\ default_sheet' = TRUE
            /\ xpc' = "global"
       ELSE /\ xpc' = "returned"
            /\ UNCHANGED default_sheet
    /\ UNCHANGED <<mparc, parc_dir, csvs, todo, sheets, wb_saved, nonMerge>>

\* lines 421-431: Global.csv first, for aparc only
merge_global ==
    /\ xpc = "global"
    /\ sheets' = IF mparc = "aparc" /\ csvs[Global] # "absent"
                 THEN [sheets EXCEPT ![Global] = SheetAfter(csvs[Global])]
                 ELSE sheets
    /\ todo' = {f \in CsvFiles \ {Global} : csvs[f] # "absent"}
    /\ xpc' = "files"
    /\ UNCHANGED <<mparc, parc_dir, csvs, default_sheet, wb_saved, nonMerge>>

\* lines 433-447: one turn of the loop over os.listdir(parc_dir)
merge_file(f) ==
    /\ xpc = "files"
    /\ f \in todo
    /\ sheets' = [sheets EXCEPT ![f] = SheetAfter(csvs[f])]
    /\ todo' = todo \ {f}
    /\ UNCHANGED <<mparc, parc_dir, csvs, xpc, default_sheet, wb_saved, nonMerge>>

\* lines 448-451: the default sheet is deleted and the workbook wb_saved;
\* openpyxl refuses to save a workbook without a visible sheet
merge_save ==
    /\ xpc = "files"
    /\ todo = {}
    /\ default_sheet' = FALSE
    /\ IF \A f \in CsvFiles : sheets[f] = "none"
       THEN /\ xpc' = "raised"
            /\ UNCHANGED wb_saved
       ELSE /\ xpc' = "returned"
            /\ wb_saved' = TRUE
    /\ UNCHANGED <<mparc, parc_dir, csvs, todo, sheets, nonMerge>>

NextMerge ==
    \/ merge_begin
    \/ merge_global
    \/ \E f \in CsvFiles : merge_file(f)
    \/ merge_save

SpecMerge == InitMerge /\ [][NextMerge]_vars

\* ===================================================================
\* SpecEnv: the environment handed to the commands of concurrent
\* process_subject calls of an atlas script
\* ===================================================================
\* os.path.join(DATA_DIR, sub_id) in BNA246/run_bn_atlas_batch.py, DATA_DIR
\* in the two other scripts
SubjectsDir(a, s) == IF a = "BNA246" THEN <<"data", s>> ELSE <<"data">>

InitEnv ==
    /\ QuietButEnv
    /\ escript \in Atlases
    /\ os_environ \in {Inherited(<< >>), Inherited(<<"freesurfer", "subjects">>)}
    /\ epc = [s \in Subjects |-> "idle"]
    /\ env = [s \in Subjects |-> Inherited(<< >>)]
    /\ ecmd = [s \in Subjects |-> 0]
    /\ seen = [s \in Subjects |-> {}]

\* what the two lines leave in os.environ
EnvironSet(environ, d) == [environ EXCEPT !.SUBJECTS_DIR = d]
EnvironAfter(environ, d) == environ

\* env = os.environ.copy(); env["SUBJECTS_DIR"] = ...
env_copy(s) ==
    /\ epc[s] = "idle"
    /\ env' = [env EXCEPT ![s] = [os_environ EXCEPT !.SUBJECTS_DIR = SubjectsDir(escript, s)]]
    /\ os_environ' = EnvironAfter(os_environ, SubjectsDir(escript, s))
    /\ epc' = [epc EXCEPT ![s] = "running"]
    /\ UNCHANGED <<escript, ecmd, seen, nonEnv>>

\* subprocess.run(cmd, env=env, check=True): the child gets env, not the
\* environment of the Python process; a nonzero exit ends the call
run_with_env(s, ok) ==
    /\ epc[s] = "running"
    /\ ecmd[s] < NumCmds(escript)
    /\ seen' = [seen EXCEPT ![s] = @ \cup {env[s].SUBJECTS_DIR}]
    /\ ecmd' = [ecmd EXCEPT ![s] = @ + 1]
    /\ epc' = [epc EXCEPT ![s] = IF ok /\ ecmd[s] + 1 < NumCmds(escript)
                                   THEN "running" ELSE "ended"]
    /\ UNCHANGED <<escript, os_environ, env, nonEnv>>

NextEnv ==
    \/ \E s \in Subjects : env_copy(s)
    \/ \E s \in Subjects, ok \in BOOLEAN : run_with_env(s, ok)

SpecEnv == InitEnv /\ [][NextEnv]_vars

\* ------------------- TBSS/1_famd_erode_register.py and its files
\* lines 40-41: the two inputs of run_preproc_reg, in dwi/dtifit
RegInputs == {"dti_FA", "dti_MD"}

\* line 57: the result and intermediate files, in the order of the loop
RegOutputs ==
    <<"FA_in_MNI", "MD_in_MNI", "FA_ero", "FA_ero_mask", "fa2mni_affine",
      "FA_lin", "FA_to_MNI_warp", "fnirt_log">>

\* the two results, which lie in dwi; the other six lie in dwi/dtifit/reg_temp
RegResults == {"FA_in_MNI", "MD_in_MNI"}

\* lines 28-31
delete_if_exists(files, file_path) ==
    IF file_path \in files THEN files \ {file_path} ELSE files

RECURSIVE DeleteEach(_, _)
DeleteEach(files, paths) ==
    IF paths = <<>> THEN files
    ELSE DeleteEach(delete_if_exists(files, Head(paths)), Tail(paths))

\* line 62
InputsPresent(files) == "dti_FA" \in files /\ "dti_MD" \in files

\* a run_preproc_reg that checked the inputs before deleting anything
DeleteIfInputs(files) ==
    IF InputsPresent(files) THEN DeleteEach(files, RegOutputs) ELSE files

\* lines 56-58: what the loop leaves of a subject's files
AfterDeletion(files) == DeleteEach(files, RegOutputs)

\* what command i of run_preproc_reg writes when it succeeds (lines 69-134)
CmdWrites(i) ==
    CASE i \in 1..3 -> {}
      [] i = 4 -> {"FA_ero"}
      [] i = 5 -> {"FA_ero_mask"}
      [] i = 6 -> {"fa2mni_affine", "FA_lin"}
      [] i = 7 -> {"FA_to_MNI_warp", "FA_in_MNI", "fnirt_log"}
      [] OTHER -> {"MD_in_MNI"}

\* the files a subject directory can hold when the script starts: without
\* dwi/dtifit only results in dwi, with it any inputs and old outputs
StartFiles(dtifit) ==
    IF dtifit
    THEN {ins \cup old : ins \in SUBSET RegInputs,
                         old \in {{}, Range(RegOutputs)}}
    ELSE {{}, RegResults}

InitReg ==
    /\ QuietButReg
    /\ gmainpc = "start"
    /\ has_dtifit \in [Subjects -> BOOLEAN]
    /\ gfiles \in [Subjects -> StartFiles(TRUE) \cup StartFiles(FALSE)]
    /\ \A s \in Subjects : gfiles[s] \in StartFiles(has_dtifit[s])
    /\ gbefore = gfiles
    /\ gqueue = <<>>
    /\ gpc = [s \in Subjects |-> "none"]
    /\ gcmds = [s \in Subjects |-> 0]
    /\ gresult = [s \in Subjects |-> "none"]

\* main, lines 146-164: the directories that hold dwi/dtifit are kept, in
\* the order os.listdir gave them, and submitted to the pool
valid_dirs == {s \in Subjects : has_dtifit[s]}

reg_submit ==
    /\ gmainpc = "start"
    /\ gmainpc' = "pool"
    /\ \E order \in Perms(valid_dirs) : gqueue' = order
    /\ gpc' = [s \in Subjects |-> IF s \in valid_dirs THEN "pending" ELSE "none"]
    /\ UNCHANGED <<has_dtifit, gfiles, gbefore, gcmds, gresult, nonReg>>

GActive == {s \in Subjects : gpc[s] \in {"deleted", "between"}}

\* a pool thread takes the oldest work item and runs run_preproc_reg up to
\* line 58: the paths are built and the eight files are deleted
reg_delete ==
    /\ gmainpc = "pool"
    /\ gqueue # <<>>
    /\ MayStart(Cardinality(GActive), MAX_JOBS)
    /\ gqueue' = Tail(gqueue)
    /\ gpc' = [gpc EXCEPT ![Head(gqueue)] = "deleted"]
    /\ gfiles' = [gfiles EXCEPT ![Head(gqueue)] = AfterDeletion(@)]
    /\ UNCHANGED <<gmainpc, has_dtifit, gbefore, gcmds, gresult, nonReg>>

\* lines 60-64: without dti_FA or dti_MD the call warns and returns
reg_check(s) ==
    /\ gpc[s] = "deleted"
    /\ IF InputsPresent(gfiles[s])
       THEN /\ gpc' = [gpc EXCEPT ![s] = "between"]
            /\ UNCHANGED gresult
       ELSE /\ gpc' = [gpc EXCEPT ![s] = "skipped"]
            /\ gresult' = [gresult EXCEPT ![s] = "None"]
    /\ UNCHANGED <<gmainpc, has_dtifit, gfiles, gbefore, gqueue, gcmds, nonReg>>

\* lines 69-134: the next command is launched and exits with status c; a
\* command that succeeds has written its outputs, check=True raises on a
\* nonzero status
reg_cmd(s, c) ==
    /\ gpc[s] = "between"
    /\ gcmds' = [gcmds EXCEPT ![s] = @ + 1]
    /\ gfiles' = [gfiles EXCEPT ![s] = IF c = 0 THEN @ \cup CmdWrites(gcmds[s] + 1) ELSE @]
    /\ gpc' = [gpc EXCEPT ![s] = AfterCmd(c, gcmds[s] + 1, NumRegCmds).pc]
    /\ gresult' = [gresult EXCEPT ![s] = AfterCmd(c, gcmds[s] + 1, NumRegCmds).result]
    /\ UNCHANGED <<gmainpc, has_dtifit, gbefore, gqueue, nonReg>>

\* lines 166-169: the with block is left when every call has ended, with
\* the exception result() re-raised if a call had one
reg_main_end ==
    /\ gmainpc = "pool"
    /\ gqueue = <<>>
    /\ \A s \in Subjects : gpc[s] \in {"none", "skipped", "finished"}
    /\ gmainpc' = IF \E s \in Subjects : gresult[s] \in Raised THEN "crashed" ELSE "done"
    /\ UNCHANGED <<has_dtifit, gfiles, gbefore, gqueue, gpc, gcmds, gresult, nonReg>>

NextReg ==
    \/ reg_submit
    \/ reg_delete
    \/ \E s \in Subjects : reg_check(s)
    \/ \E s \in Subjects, c \in {0, 1} : reg_cmd(s, c)
    \/ reg_main_end

SpecReg == InitReg /\ [][NextReg]_vars

\* ================================================================ claims
\* what the completion markers on a disk say, read off the disk directly
Sentinel(fs, u) == done_file(u) \in DOMAIN fs
SuccessLine(fs, u) ==
    /\ log_file(u) \in DOMAIN fs
    /\ LET text == Texts[fs[log_file(u)].text]
       IN  \E i \in 0..Len(text) :
               text = SubSeq(text, 1, i) \o Marker
                      \o SubSeq(text, i + Len(Marker) + 1, Len(text))
Marked(fs, u) == Sentinel(fs, u) \/ SuccessLine(fs, u)

ExitedZero == {"ok"}
RunOver == run >= 1 /\ mainpc = "idle"

\* C1 as stated: when a run that directly follows another run is over, every
\* unit is Skipped: no fs directory was removed and recon-all was invoked for
\* no unit.
C1_SecondRunSkipsAll ==
    (run >= 2 /\ mainpc = "idle") =>
        /\ removed = {}
        /\ invoked = {}
        /\ \A u \in Units : report[u] = "Skipped"

\* C1 amended: in a run that directly follows another run, the units that
\* are Skipped are exactly those the previous run skipped or whose recon-all
\* exited 0 in it; for a Skipped unit nothing is removed and recon-all is
\* not invoked.  A unit whose recon-all failed before is processed again.
C1_SecondRunSkipsNonFailed ==
    run >= 2 =>
        \A u \in Units :
            /\ prevreport[u] \in {"Skipped", "Succeeded"} <=> report[u] = "Skipped"
            /\ report[u] = "Skipped" => u \notin removed /\ u \notin invoked

C1_Witness ==
    /\ run = 2 /\ mainpc = "idle"
    /\ \A u \in Units : report[u] = "Skipped"
    /\ \E u \in Units : prevreport[u] = "Succeeded"
    /\ \E u \in Units : prevreport[u] = "Skipped"

\* C2: a finished run with at least two incomplete units, exactly one of
\* whose recon-all exited nonzero and none failed to launch: that unit is
\* Failed, every other incomplete unit was invoked, ran to its own exit and
\* is Succeeded, and main reached its end with nothing left queued.
C2_Isolation ==
    LET inc == Range(incomplete_items)
        F == {u \in inc : exitcode[u] = "fail"}
    IN  (/\ RunOver
         /\ Cardinality(inc) >= 2
         /\ Cardinality(F) = 1
         /\ \A u \in inc : exitcode[u] # "noexec")
        => /\ \A u \in F : report[u] = "Failed"
           /\ \A u \in inc \ F : /\ u \in invoked
                                 /\ exitcode[u] \in ExitedZero
                                 /\ report[u] = "Succeeded"
           /\ donemsg /\ queue = <<>>

C2_Witness ==
    /\ RunOver /\ donemsg
    /\ Cardinality(Range(incomplete_items)) >= 2
    /\ Cardinality({u \in Units : exitcode[u] = "fail"}) = 1
    /\ \E u \in Units : report[u] = "Failed"
    /\ \E u \in Units : report[u] = "Succeeded"
    /\ \A u \in Units : exitcode[u] # "noexec"

\* C3: never more than max_threads units execute their pipeline at once.
C3_ConcurrencyBound == Cardinality(Active) <= max_threads

C3_Witness == Cardinality(Active) = max_threads /\ queue # <<>>

\* C4: once the future of a unit that was incomplete and had an fs directory
\* when main scanned is finished, everything at or below its fs directory
\* was written in this run.
StaleAtScan(u) == ~Marked(pre, u) /\ fs_path(u) \in DOMAIN pre

C4_ResetBeforeRetry ==
    \A u \in Units :
        (StaleAtScan(u) /\ pc[u] = "finished")
            => Under(fsys, fs_path(u)) \subseteq written

C4_Witness ==
    \E u \in Units :
        /\ StaleAtScan(u) /\ pc[u] = "finished" /\ mainpc = "idle"
        /\ error_file(u) \in DOMAIN pre
        /\ exitcode[u] \in ExitedZero
        /\ Under(fsys, fs_path(u)) # {}

\* C6: units 1 (sentinel present), 2 (no fs directory) and 3 (stale fs
\* directory), any further unit complete, every recon-all exiting 0: at the
\* end of the run Skipped is unit 1 (and the further units), Succeeded is
\* {2, 3}, Failed is empty, and nothing of unit 3's stale directory is left.
ScenarioABC ==
    /\ Sentinel(pre, 1)
    /\ fs_path(2) \notin DOMAIN pre
    /\ StaleAtScan(3)
    /\ \A u \in Units \ {1, 2, 3} : Sentinel(pre, u)
    /\ \A u \in Units : exitcode[u] \in ExitedZero \cup {"none"}

C6_Scenario ==
    (RunOver /\ ScenarioABC)
        => /\ {u \in Units : report[u] = "Skipped"} = Units \ {2, 3}
           /\ {u \in Units : report[u] = "Succeeded"} = {2, 3}
           /\ {u \in Units : report[u] = "Failed"} = {}
           /\ Under(fsys, fs_path(3)) \subseteq written
           /\ error_file(3) \notin DOMAIN fsys

C6_Witness ==
    /\ RunOver /\ ScenarioABC /\ run = 1 /\ donemsg
    /\ error_file(3) \in DOMAIN pre
    /\ report[3] = "Succeeded"

\* C8: a run that follows another run has, when it is over, invoked recon-all
\* for exactly the units whose markers said "incomplete" when it scanned.
C8_RetryOnlyIncomplete ==
    (run >= 2 /\ mainpc = "idle")
        => invoked = {u \in Units : ~Marked(pre, u)}

C8_Witness ==
    /\ run >= 2 /\ mainpc = "idle"
    /\ \E u \in Units : prevreport[u] = "Succeeded"
    /\ \E u \in Units : prevreport[u] = "Failed" /\ u \in invoked
    /\ invoked # Units

C7_PureRead ==
    [][/\ fsys' = fsys
       /\ \A u \in Units : checked[u] # "none" => checked'[u] = checked[u]]_vars

C7_Witness ==
    /\ calls = MaxCalls
    /\ checked = [u \in Units |-> IF u = 1 THEN "True" ELSE "none"]
    /\ ~Sentinel(fsys, 1)

\* C9: the commands of one subject start in list order, each after the exit
\* of the one before it, and none starts after a nonzero exit.
C9_Sequential ==
    \A s \in Subjects :
        \A k \in 1..Len(trace[s]) :
            /\ trace[s][k].cmd = (k + 1) \div 2
            /\ trace[s][k].cmd <= NumCmds(atlas)
            /\ (k % 2 = 1) => trace[s][k].ev = "start"
            /\ (k % 2 = 0) => trace[s][k].ev \in {"exit", "noexec"}
            /\ (trace[s][k].ev = "exit" /\ trace[s][k].code # 0) => k = Len(trace[s])

C9_Witness ==
    \E s \in Subjects :
        /\ apc[s] = "finished" /\ amainpc = "end"
        /\ Len(trace[s]) = 6
        /\ trace[s][6] = Event("exit", 3, 1)
        /\ areport[s] = "ERROR"

\* C10: a subject whose command could not be launched is reported as failed
\* and the error does not leave process_subject.
C10_LaunchErrorHandled ==
    \A s \in Subjects :
        (apc[s] = "finished" /\ trace[s] # <<>>
         /\ trace[s][Len(trace[s])].ev = "noexec")
            => areport[s] = "ERROR" /\ aresult[s] # "raised"

\* C11: in the TBSS registration batch a command that exits nonzero in one
\* subject is never fatal: whenever main has ended, it ended normally with
\* its closing message printed.
C11_StepFailureNotFatal ==
    (/\ tmainpc \in {"crashed", "done"}
     /\ \E s \in Subjects : tresult[s] = "CalledProcessError"
     /\ \A s \in Subjects : tresult[s] # "OSError")
        => tmainpc = "done" /\ tmsg

\* C12: when main finds no incomplete unit it returns without creating a
\* worker pool: the with block is never entered and never left.
C12_ShortCircuit ==
    (run >= 1 /\ incomplete_items = <<>>)
        => mainpc = "idle" /\ ~donemsg

\* C13: the "Done" banner is printed only when every unit main submitted has
\* ended: none is waiting in the queue, none is executing.
C13_DoneAfterAll ==
    donemsg =>
        /\ queue = <<>>
        /\ \A u \in Range(incomplete_items) : pc[u] = "finished"
        /\ \A u \in Units : pc[u] \notin {"pending", "running"}

C13_Witness ==
    /\ donemsg
    /\ Len(incomplete_items) > max_threads
    /\ \E u \in Units : exitcode[u] = "fail"
    /\ \E u \in Units : exitcode[u] = "ok"

\* C14: every unit main submitted, whether it waits in the queue or executes,
\* eventually has a finished future, given that every recon-all that was
\* started exits.
C14_AllTerminate ==
    \A u \in Units : (pc[u] \in {"pending", "running"}) ~> (pc[u] = "finished")

C14_Witness ==
    /\ Len(incomplete_items) > max_threads
    /\ pc[incomplete_items[Len(incomplete_items)]] = "finished"
    /\ exitcode[incomplete_items[Len(incomplete_items)]] # "none"
    /\ \E u \in Units : exitcode[u] = "fail"

\* C15: when main has run on a data root that does not exist or holds no
\* unit, discovery raised no error and nothing was dispatched.
C15_DiscoveryTolerant ==
    (run >= 1 /\ \A u \in Units : ~Exists(pre, UnitPath(u)))
        => /\ mainpc # "raised"
           /\ queue = <<>>
           /\ invoked = {}

\* C16: no enumeration of DATA_DIR keeps the name fsaverage: it is not
\* submitted to a pool, not written to the subject path file and gets no row
\* of Global.csv.
C16_FsaverageExcluded ==
    \A e \in visited : "fsaverage" \notin selected[e]

\* what a run must leave of unit u and report for it, given only the disk
\* main found and how the recon-all of u ended
Restrict(fs, S) == [q \in S |-> fs[q]]

FinalNodes(u) ==
    IF Marked(pre, u)
    THEN Restrict(pre, Under(pre, UnitPath(u)))
    ELSE LET kept == Restrict(pre, Under(pre, UnitPath(u)) \ Under(pre, fs_path(u)))
         IN  IF exitcode[u] \in ToolOutcomes
             THEN WriteAll(kept, ReconAllWrites(u, exitcode[u]))
             ELSE kept

FinalReport(u) ==
    IF Marked(pre, u) THEN "Skipped"
    ELSE IF exitcode[u] \in ExitedZero THEN "Succeeded" ELSE "Failed"

\* C17: when a run is over, what is left of each unit on disk and the
\* outcome reported for it depend only on the disk the run started from and
\* on how that unit's own recon-all ended, whatever the number of threads
\* and the order in which the units started and ended.
C17_OrderIndependent ==
    RunOver =>
        \A u \in Units :
            /\ Restrict(fsys, Under(fsys, UnitPath(u))) = FinalNodes(u)
            /\ report[u] = FinalReport(u)

C17_Witness ==
    /\ RunOver /\ donemsg /\ max_threads >= 2
    /\ \E u, v \in Units :
          /\ u < v
          /\ exitcode[u] = "fail" /\ exitcode[v] = "ok"
          /\ StaleAtScan(u) /\ StaleAtScan(v)

\* the fs directory of u is there before the step and gone after it
FsRemoved(u) == Exists(fsys, fs_path(u)) /\ ~Exists(fsys', fs_path(u))

\* C18 as stated: the fs directory of a unit is removed only while the unit
\* has not yet been submitted to the pool, and the step that removes it
\* changes nothing of another unit.
C18_ResetBeforeDispatch ==
    [][\A u \in Units :
          FsRemoved(u) =>
              /\ pc[u] = "none"
              /\ \A v \in Units \ {u} :
                    Restrict(fsys', Under(fsys', UnitPath(v)))
                        = Restrict(fsys, Under(fsys, UnitPath(v)))]_vars

\* C18 amended: the fs directory of a unit is removed by the unit's own
\* work item, after it was submitted and before its recon-all is invoked;
\* other units may be executing then, and the step removes only paths at or
\* below that fs directory and changes nothing of another unit.
C18_ResetInWorker ==
    [][\A u \in Units :
          FsRemoved(u) =>
              /\ mainpc = "pool" /\ pc[u] = "pending" /\ u = Head(queue)
              /\ u \notin invoked /\ u \in invoked'
              /\ DOMAIN fsys \ DOMAIN fsys' \subseteq Under(fsys, fs_path(u))
              /\ \A v \in Units \ {u} :
                    Restrict(fsys', Under(fsys', UnitPath(v)))
                        = Restrict(fsys, Under(fsys, UnitPath(v)))]_vars

C18_Witness ==
    \E u, v \in Units :
        /\ v < u
        /\ pc[v] = "running" /\ pc[u] = "running"
        /\ u \in removed
        /\ ~Exists(fsys, fs_path(u))

\* path p is created, deleted or given another node by the step
Changed(p) ==
    \/ p \notin DOMAIN fsys
    \/ p \notin DOMAIN fsys'
    \/ fsys[p] # fsys'[p]

\* C19: a step of the work item of a unit creates, modifies or deletes only
\* paths at or below that unit's own directory; every path outside it,
\* those of the other units included, stays as it was.
C19_OwnSubtreeOnly ==
    [][\A p \in DOMAIN fsys \cup DOMAIN fsys' :
          Changed(p) =>
              \E u \in Units :
                  /\ IsPrefix(UnitPath(u), p)
                  /\ pc[u] \in {"pending", "running"}
                  /\ pc'[u] # pc[u]
                  /\ \A v \in Units \ {u} : pc'[v] = pc[v]]_vars

C19_Witness ==
    \E u, v \in Units :
        /\ u # v
        /\ u \in removed /\ exitcode[u] = "ok" /\ pc[u] = "finished"
        /\ Marked(pre, v)
        /\ Restrict(fsys, Under(fsys, UnitPath(v)))
               = Restrict(pre, Under(pre, UnitPath(v)))
        /\ Under(fsys, UnitPath(v)) # {}

\* C20: a subject for which write_log raised has still had its external
\* commands started, and the batch came to its end.
C20_LogFailureTolerated ==
    \A s \in Subjects :
        (apc[s] = "finished" /\ aresult[s] = "log_raised")
            => trace[s] # <<>>

\* the lines of a file: the tokens between line breaks
RECURSIVE LinesOf(_)
LinesOf(f) ==
    IF f = <<>> THEN <<>>
    ELSE LET i == CHOOSE i \in 1..(Len(f) + 1) :
                     /\ i = Len(f) + 1 \/ f[i].s = "\n"
                     /\ \A j \in 1..(i - 1) : f[j].s # "\n"
         IN  IF i > Len(f) THEN <<f>>
             ELSE <<SubSeq(f, 1, i - 1)>> \o LinesOf(SubSeq(f, i + 1, Len(f)))

RECURSIVE Flatten(_)
Flatten(ss) == IF ss = <<>> THEN <<>> ELSE Head(ss) \o Flatten(Tail(ss))

EntriesWritten == [i \in 1..Len(lwritten) |->
                      Entry(lwritten[i].w, lwritten[i].k, lwritten[i].m)]

C22_DtifitInvoked ==
    \A s \in Subjects :
        (dpc[s] = "finished" /\ dmade[s] \in {"existed", "created"})
            => s \in dinvoked

\* C23: when main has ended, its final output holds the counts of skipped,
\* succeeded and failed units and the identifiers of the failed ones, and
\* the identifiers main holds as failed are exactly the units whose
\* pipeline failed in this run.
C23_FinalReport ==
    donemsg =>
        /\ {"skipped", "succeeded", "failed", "failed identifiers"}
               \subseteq final_output
        /\ failed_items(result) = {u \in Units : report[u] = "Failed"}

\* the metrics whose pattern a present stats file lacks
Lacking(files, caps) ==
    {m \in Sourced : files[SourceFile(m)] = "present" /\ caps[m] = NoMatch}

\* every stats file is there and exactly one pattern finds nothing, the
\* others find numbers
OnePatternLacking ==
    /\ \A f \in StatsFiles : statfiles[f] = "present"
    /\ Cardinality(Lacking(statfiles, captures)) = 1
    /\ Unparsable(statfiles, captures) = {}

\* the sourced metrics a derived metric is computed from
InputsOf(m) ==
    IF m = "meanCT2" THEN {"lhVertex", "lhMeanThickness", "rhVertex", "rhMeanThickness"}
    ELSE {"lh_totaISA2", "rh_totaISA2"}

\* Claim C24 as stated: when a stats file is present but lacks exactly one
\* expected pattern, extract_global_metrics returns NaN for exactly that
\* metric, a valid value for every other metric, and does not raise.
C24_OnlyThatMetric ==
    (mpc # "before" /\ OnePatternLacking) =>
        /\ mpc = "returned"
        /\ \A m \in Sourced \cup Derived :
              metrics[m] = NaN <=> m \in Lacking(statfiles, captures)

\* Claim C24, amended: the call raises exactly when a pattern captures text
\* that float() rejects; otherwise every metric of a present file is NaN
\* when its pattern finds nothing and the captured number when it finds one,
\* and a derived metric (meanCT2, totalSA2) is NaN as soon as one of the
\* metrics it is computed from is NaN or not set.
C24_NaNForLacking ==
    /\ mpc = "raised" <=> (mpc # "before" /\ Unparsable(statfiles, captures) # {})
    /\ mpc = "returned" =>
          /\ \A m \in Sourced :
                statfiles[SourceFile(m)] = "present" =>
                   metrics[m] = IF captures[m] = NoMatch THEN NaN ELSE Num(captures[m].v)
          /\ \A m \in Derived :
                (\E k \in InputsOf(m) : metrics[k] \in {NaN, Unset}) => metrics[m] = NaN
          /\ (\A k \in InputsOf("totalSA2") : metrics[k].t = "num")
                => metrics["totalSA2"].t = "num"

C24_Witness ==
    /\ mpc = "returned"
    /\ OnePatternLacking
    /\ captures["lhVertex"] = NoMatch
    /\ metrics["lhVertex"] = NaN
    /\ metrics["meanCT2"] = NaN
    /\ metrics["lhMeanThickness"] = Num(2)
    /\ metrics["GMV"] = Num(2)

\* Claim C25: when a stats file is missing, extract_global_metrics sets
\* every metric sourced from that file to NaN in the mapping it returns and
\* prints a warning about it.
C25_MissingFileNaN ==
    mpc = "returned" =>
        \A f \in StatsFiles :
            statfiles[f] = "absent" =>
               /\ \A m \in Sourced : SourceFile(m) = f => metrics[m] = NaN
               /\ \E w \in warned :
                     \/ w[2] = f
                     \/ /\ w[1] \in Derived
                        /\ \E m \in InputsOf(w[1]) : SourceFile(m) = f

\* main has left run_aparcstats2table_parallel
PastAparc == spc \in {"aseg", "global", "excel", "finish", "done", "raised"}

\* the indices of the tasks built for one combination
TasksFor(hemi, meas, parc) ==
    {i \in 1..Len(tasks) : /\ tasks[i].cmd[1] = "aparcstats2table"
                           /\ tasks[i].cmd[3] = hemi
                           /\ tasks[i].cmd[4] = meas
                           /\ tasks[i].cmd[5] = parc}

\* the task list holds one task per combination, with distinct output
\* files and the indices 1..total
TaskListComplete ==
    /\ Len(tasks) = Len(HEMISPHERES) * Len(MEASUREMENTS) * Len(PARCELLATIONS)
    /\ Len(tasks) = 56
    /\ \A h \in 1..Len(HEMISPHERES), m \in 1..Len(MEASUREMENTS), p \in 1..Len(PARCELLATIONS) :
          Cardinality(TasksFor(HEMISPHERES[h], MEASUREMENTS[m], PARCELLATIONS[p])) = 1
    /\ \A i, j \in 1..Len(tasks) :
          tasks[i].output_file = tasks[j].output_file => i = j
    /\ \A i \in 1..Len(tasks) :
          /\ tasks[i].idx = i
          /\ tasks[i].total = Len(tasks)
          /\ tasks[i].cmd[6] = tasks[i].output_file

C27_NoSubjectsNoWork ==
    (subj_count = 0 /\ spc \notin {"begin", "subjects"}) =>
        /\ pools = 0
        /\ squeue = << >> /\ srunning = {}
        /\ \A i \in 1..total : launched[i] = 0
        /\ asegi = 0 /\ aseglaunched = 0
        /\ spc # "pool"
        /\ \A k \in 1..Len(slog) : slog[k] \notin {"aparcstats2table", "asegstats2table"}

C27_Witness ==
    /\ subj_count = 0
    /\ spc = "global"
    /\ stages = <<"subjects", "dirs", "aparc", "aseg">>
    /\ pools = 0
    /\ aseglaunched = 0

\* the stages of main in the order of the source
StageOrder == <<"subjects", "dirs", "aparc", "aseg", "global", "excel">>

\* Claim C30: main of run_stats_batch.py runs its six stages strictly in
\* order, each after the one before has finished; every parallel
\* aparcstats2table task has terminated before asegstats2table, Global.csv
\* generation or workbook merging starts; the log entry BATCH START precedes
\* and BATCH FINISHED follows every other log entry of the run.
C30_StagesInOrder ==
    /\ Len(stages) <= Len(StageOrder)
    /\ stages = SubSeq(StageOrder, 1, Len(stages))
    /\ (PastAparc \/ \E k \in 1..Len(stages) : stages[k] \in {"aseg", "global", "excel"}) =>
          /\ squeue = << >>
          /\ srunning = {}
          /\ subj_count > 0 => \A i \in 1..total : launched[i] = 1
    /\ (spc = "pool" \/ srunning # {} \/ squeue # << >>) => stages = SubSeq(StageOrder, 1, 3)
    /\ slog # << >> => slog[1] = "BATCH START"
    /\ \A k \in 1..Len(slog) :
          /\ slog[k] = "BATCH START" => k = 1
          /\ slog[k] = "BATCH FINISHED" => k = Len(slog) /\ spc = "done"
          /\ slog[k] = "asegstats2table" =>
                \A j \in 1..Len(slog) : slog[j] = "aparcstats2table" => j < k
    /\ spc = "done" =>
          /\ stages = StageOrder
          /\ slog[Len(slog)] = "BATCH FINISHED"

C30_Witness ==
    /\ spc = "done"
    /\ subj_count > 0
    /\ stages = StageOrder
    /\ Len(slog) = total + Len(SUBCORTICAL_STATS) + 3
    /\ slog[1] = "BATCH START"
    /\ slog[Len(slog)] = "BATCH FINISHED"

\* the CSV files merge_parc_to_excel reads: Global.csv for aparc only
Merged(f) == csvs[f] # "absent" /\ (f = Global => mparc = "aparc")

\* Claim C28: during workbook assembly a CSV that is unreadable or
\* malformed has its sheet skipped (no sheet for it is in the workbook),
\* every other readable CSV of the parcellation still gets its sheet, and
\* the workbook is still saved.
C28_BadSheetSkipped ==
    (/\ xpc \in {"returned", "raised"}
     /\ parc_dir
     /\ \E f \in CsvFiles : Merged(f) /\ csvs[f] # "ok") =>
        /\ \A f \in CsvFiles :
              Merged(f) => sheets[f] = IF csvs[f] = "ok" THEN "full" ELSE "none"
        /\ xpc = "returned"
        /\ wb_saved

\* Claim C29: SUBJECTS_DIR is passed per invocation and never changes
\* process-wide state: whatever process_subject calls run concurrently,
\* os.environ stays as it was, and each command of a unit is started with
\* the SUBJECTS_DIR built by that unit's own call.
C29_EnvPerInvocation ==
    /\ [](\A s \in Subjects :
            /\ seen[s] \subseteq {SubjectsDir(escript, s)}
            /\ ecmd[s] > 0 => seen[s] = {SubjectsDir(escript, s)}
            /\ epc[s] # "idle" => env[s].FREESURFER_HOME = os_environ.FREESURFER_HOME)
    /\ [][os_environ' = os_environ]_vars

C29_Witness ==
    /\ escript = "BNA246"
    /\ os_environ = Inherited(<<"freesurfer", "subjects">>)
    /\ \A s \in Subjects : epc[s] = "running" /\ ecmd[s] > 0
    /\ seen[1] = {<<"data", 1>>}
    /\ seen[2] = {<<"data", 2>>}

\* Claim C31: completion is never undone by the batch: once a unit's
\* completion check is true (done file or success line present) no step of
\* any batch run removes the unit's fs directory or invokes recon-all for
\* it, and the check stays true, whatever the run and the interleaving.
C31_CompletionNeverUndone ==
    [][\A u \in Units :
          check_completion(fsys, u) =>
              /\ Exists(fsys', fs_path(u))
              /\ check_completion(fsys', u)
              /\ u \in removed' => u \in removed
              /\ u \in invoked' => u \in invoked
              /\ pc'[u] # "running"]_vars

C31_Witness ==
    \E u, v \in Units :
        /\ run = MaxRuns
        /\ prevreport[u] = "Succeeded"
        /\ report[u] = "Skipped"
        /\ check_completion(fsys, u)
        /\ u \notin invoked
        /\ v \in removed /\ v \in invoked
        /\ pc[v] = "finished"

\* Claim C32: within one batch run each discovered unit is submitted to the
\* pool at most once and recon-all is invoked at most once per unit; a unit
\* that fails is not retried within the same run.
C32_AtMostOncePerRun ==
    /\ [](/\ \A i, j \in 1..Len(queue) : queue[i] = queue[j] => i = j
          /\ \A i, j \in 1..Len(incomplete_items) :
                incomplete_items[i] = incomplete_items[j] => i = j
          /\ \A u \in Units : pc[u] = "pending" <=> u \in Range(queue)
          /\ \A u \in invoked : pc[u] \in {"running", "finished"})
    /\ [][run' = run =>
             \A u \in Units :
                /\ pc[u] = "none" => pc'[u] = "none"
                /\ pc[u] = "running" => pc'[u] \in {"running", "finished"}
                /\ pc[u] = "finished" => pc'[u] = "finished"
                /\ (u \in invoked' /\ u \notin invoked) => pc[u] = "pending"
                /\ u \in invoked => u \in invoked'
                /\ exitcode[u] # "none" => exitcode'[u] = exitcode[u]]_vars

C32_Witness ==
    \E u, v \in Units :
        /\ u # v
        /\ donemsg
        /\ exitcode[u] = "fail" /\ report[u] = "Failed" /\ pc[u] = "finished"
        /\ exitcode[v] = "ok" /\ report[v] = "Succeeded"
        /\ {u, v} \subseteq invoked
        /\ ~check_completion(fsys, u)

\* the process_subject call of s ended with an exception
Escaped(s) == aresult[s] \in {"raised", "log_raised"}

\* how far the batch has come: the position of main and of each call
CallProgress(s) ==
    CASE apc[s] \in {"none", "pending"} -> 0
      [] apc[s] = "between" -> 2 * step[s] + 1
      [] apc[s] = "running" -> 2 * step[s]
      [] apc[s] = "finished" -> 2 * NumCmds(atlas) + 2

RECURSIVE SumProgress(_)
SumProgress(n) == IF n = 0 THEN 0 ELSE CallProgress(n) + SumProgress(n - 1)

AtlasProgress ==
    SumProgress(NumSubjects)
      + (CASE amainpc = "start" -> 0 [] amainpc = "pool" -> 1 [] OTHER -> 2)

\* Claim C33: in the atlas batch scripts an exception that escapes
\* process_subject for one subject (a launch error, a write_log error) is
\* dropped: it is not reported and not re-raised in the main thread, every
\* other subject is still processed, and the script still reaches its end.
\* Reaching the end is stated as: short of the end a step is always possible,
\* and every step raises a measure that is bounded, so that a batch whose
\* threads keep running and whose commands return cannot stop before the end.
C33_EscapedExceptionDropped ==
    /\ [](/\ amainpc \in {"start", "pool", "end"}
          /\ \A s \in Subjects : Escaped(s) => areport[s] = "none"
          /\ amainpc = "end" =>
                \A s \in Subjects :
                   /\ apc[s] = "finished"
                   /\ ~Escaped(s) => /\ aresult[s] = "None"
                                     /\ areport[s] \in {"finished", "ERROR"}
                                     /\ step[s] >= 1
          \* short of its end the script can always take a step
          /\ amainpc # "end" => ENABLED NextAtlas)
    \* and every step brings it nearer to its end
    /\ [][AtlasProgress' > AtlasProgress]_vars

C33_Witness ==
    /\ amainpc = "end"
    /\ aresult[1] = "raised"
    /\ step[1] = 1
    /\ areport[1] = "none"
    /\ areport[2] = "finished"
    /\ step[2] = NumCmds(atlas)

\* Claim C34: in TBSS/1_famd_erode_register.py, when the call of one subject
\* raises, every subject that was submitted still runs to its own outcome
\* before main exits: the exception that future.result() re-raises leaves
\* main only once the pool has drained, and no sibling call is cancelled.
C34_RaiseWaitsForPool ==
    /\ [](/\ tmainpc \in {"crashed", "done"} =>
               /\ tqueue = <<>>
               /\ \A s \in Subjects :
                     /\ tpc[s] = "finished"
                     /\ tresult[s] \in Raised \cup {"None"}
                     /\ tresult[s] \in Raised => tstep[s] >= 1
          /\ tmainpc = "crashed" => \E s \in Subjects : tresult[s] \in Raised)
    /\ [][/\ \A s \in Subjects :
               /\ tpc[s] = "pending" =>
                     \/ tpc'[s] = "pending" /\ s \in Range(tqueue')
                     \/ tpc'[s] = "between"
                     \/ tpc'[s] = "finished" /\ tresult'[s] = "None" /\ tstep'[s] = 0
               /\ tpc[s] \in {"between", "running"} =>
                     \/ tpc'[s] \in {"between", "running"}
                     \/ tpc'[s] = "finished" /\ tresult'[s] \in Raised \cup {"None"}
          /\ (tmainpc = "raising" /\ tmainpc' # "raising") =>
                 tmainpc' = "crashed" /\ \A s \in Subjects : tpc[s] = "finished"]_vars

C34_Witness ==
    /\ tmainpc = "crashed"
    /\ tresult[1] = "CalledProcessError"
    /\ tstep[1] = 1
    /\ tresult[2] = "None"
    /\ tstep[2] = NumRegCmds

\* Claim C35: run_preproc_reg deletes the subject's two results and six
\* intermediate files before it checks that dti_FA and dti_MD exist, so a
\* subject skipped for a missing input ends with none of the eight files,
\* valid results included; the call only runs for subjects that have a
\* dwi/dtifit directory and launches no command for a skipped subject.
C35_DeletedBeforeInputCheck ==
    /\ [](\A s \in Subjects :
            /\ gpc[s] = "skipped" =>
                  /\ gfiles[s] \cap Range(RegOutputs) = {}
                  /\ ~(RegInputs \subseteq gfiles[s])
                  /\ gfiles[s] = gbefore[s] \cap RegInputs
                  /\ gcmds[s] = 0
            /\ gpc[s] # "none" => has_dtifit[s]
            /\ ~has_dtifit[s] => gfiles[s] = gbefore[s] /\ gcmds[s] = 0)
    /\ [][\A s \in Subjects :
            /\ (gpc[s] = "pending" /\ gpc'[s] # "pending") =>
                  /\ gpc'[s] = "deleted"
                  /\ gfiles'[s] = gfiles[s] \ Range(RegOutputs)
            /\ (gpc'[s] = "skipped" /\ gpc[s] # "skipped") =>
                  /\ gpc[s] = "deleted"
                  /\ gfiles'[s] = gfiles[s]
            /\ gcmds'[s] # gcmds[s] => gpc[s] = "between"
            /\ gpc[s] = "skipped" => gpc'[s] = "skipped"]_vars

C35_Witness ==
    /\ gmainpc = "done"
    /\ gpc[1] = "skipped"
    /\ gbefore[1] = {"dti_FA"} \cup Range(RegOutputs)
    /\ gfiles[1] = {"dti_FA"}
    /\ gpc[2] = "finished"
    /\ gcmds[2] = NumRegCmds
    /\ RegResults \subseteq gfiles[2]

====
